---- MODULE Spec2Model ----
(***************************************************************************)
(* agent-trust-scan: the boundary-defence pipeline.                        *)
(*   security.ts  isPrivateOrReservedIP, validateDomain                    *)
(*   utils.ts     safeFetch, normalizeUrl, buildUrl                        *)
(*   scanner.ts   scanDomain                                               *)
(*                                                                         *)
(* Text is modelled as a sequence of tokens.  Every token is a record of   *)
(* one shape, [k, s, n]: k is the kind of text, s its letters, n its       *)
(* numbers:                                                                *)
(*   [k |-> "ch",   s |-> "#"]            the single character #           *)
(*   [k |-> "name", s |-> "Example.COM"]  a run of letters, digits, - and .*)
(*   [k |-> "num",  n |-> <<127,0,0,1>>]  decimal numbers joined by dots   *)
(*   [k |-> "br6",  n |-> <<h1..h8>>]     an IPv6 address in brackets      *)
(*   [k |-> "port", n |-> <<8080>>]       a colon and a decimal number     *)
(*   [k |-> "scheme", s |-> "https"]      the prefix https://              *)
(*   [k |-> "opaque", s |-> "javascript"] the prefix javascript:           *)
(* An address text, as DNS returns it or as a hostname, has one of the     *)
(* kinds "ipv4" (dotted quad), "ipv6" (eight hextets), "mapped"            *)
(* (::ffff:a.b.c.d) or "junk" (no address at all).                         *)
(***************************************************************************)
EXTENDS Integers, Sequences, FiniteSets, TLC

None == [k |-> "none", s |-> "", n |-> <<>>]

Ch(c) == [k |-> "ch", s |-> c, n |-> <<>>]

Name(s) == [k |-> "name", s |-> s, n |-> <<>>]

Num(parts) == [k |-> "num", s |-> "", n |-> parts]

Br6(parts) == [k |-> "br6", s |-> "", n |-> parts]

Port(p) == [k |-> "port", s |-> "", n |-> <<p>>]

Scheme(s) == [k |-> "scheme", s |-> s, n |-> <<>>]

Opaque(s) == [k |-> "opaque", s |-> s, n |-> <<>>]

V4(a, b, c, d) == [k |-> "ipv4", s |-> "", n |-> <<a, b, c, d>>]

V6(parts) == [k |-> "ipv6", s |-> "", n |-> parts]

Mapped(a, b, c, d) == [k |-> "mapped", s |-> "", n |-> <<a, b, c, d>>]

Junk == [k |-> "junk", s |-> "", n |-> <<>>]

(* the same address text written another way: "expanded" (no :: run) or    *)
(* "padded" (four digits a group); "" is the compressed spelling           *)
Spelt(t, style) == [t EXCEPT !.s = style]

Pow2(e) == 2 ^ e

(***************************************************************************)
(* ipaddr.parse: the parsed address, kind "ipv4" with four octets or kind  *)
(* "ipv6" with eight 16-bit parts; kind "throw" when the text is no        *)
(* address.                                                                *)
(***************************************************************************)
ParseThrows == [kind |-> "throw", parts |-> <<>>]

IpaddrParse(ip) ==
  CASE ip.k = "ipv4" /\ Len(ip.n) = 4 /\ (\A i \in 1..4 : ip.n[i] \in 0..255) ->
         [kind |-> "ipv4", parts |-> ip.n]
    [] ip.k = "ipv6" /\ Len(ip.n) = 8 /\ (\A i \in 1..8 : ip.n[i] \in 0..65535) ->
         [kind |-> "ipv6", parts |-> ip.n]
    [] ip.k = "mapped" /\ Len(ip.n) = 4 /\ (\A i \in 1..4 : ip.n[i] \in 0..255) ->
         [kind |-> "ipv6",
          parts |-> <<0, 0, 0, 0, 0, 65535,
                      ip.n[1] * 256 + ip.n[2], ip.n[3] * 256 + ip.n[4]>>]
    [] OTHER -> ParseThrows

(* the bits of part i, of the given width, that a prefix of the given      *)
(* length covers                                                           *)
PartBits(i, width, bits) ==
  IF bits >= width * i THEN width
  ELSE IF bits <= width * (i - 1) THEN 0
  ELSE bits - width * (i - 1)

(* mutant: only the whole octets of the prefix are compared *)
InCidr4_WholeOctets(o, base, bits) ==
  \A i \in 1..4 : 8 * i <= bits => o[i] = base[i]

(* IPv4.match(base, bits): the first bits of the 32-bit values agree *)
InCidr4(o, base, bits) ==
  \A i \in 1..4 :
    (o[i] \div Pow2(8 - PartBits(i, 8, bits))) = (base[i] \div Pow2(8 - PartBits(i, 8, bits)))

(* IPv4.range(): the name of the special range holding the address *)
IPv4Range(o) ==
  CASE InCidr4(o, <<0, 0, 0, 0>>, 8) -> "unspecified"
    [] InCidr4(o, <<255, 255, 255, 255>>, 32) -> "broadcast"
    [] InCidr4(o, <<224, 0, 0, 0>>, 4) -> "multicast"
    [] InCidr4(o, <<169, 254, 0, 0>>, 16) -> "linkLocal"
    [] InCidr4(o, <<127, 0, 0, 0>>, 8) -> "loopback"
    [] InCidr4(o, <<100, 64, 0, 0>>, 10) -> "carrierGradeNat"
    [] InCidr4(o, <<10, 0, 0, 0>>, 8) -> "private"
    [] InCidr4(o, <<172, 16, 0, 0>>, 12) -> "private"
    [] InCidr4(o, <<192, 168, 0, 0>>, 16) -> "private"
    [] InCidr4(o, <<192, 0, 0, 0>>, 24) -> "reserved"
    [] InCidr4(o, <<192, 0, 2, 0>>, 24) -> "reserved"
    [] InCidr4(o, <<192, 88, 99, 0>>, 24) -> "reserved"
    [] InCidr4(o, <<198, 18, 0, 0>>, 15) -> "reserved"
    [] InCidr4(o, <<198, 51, 100, 0>>, 24) -> "reserved"
    [] InCidr4(o, <<203, 0, 113, 0>>, 24) -> "reserved"
    [] InCidr4(o, <<240, 0, 0, 0>>, 4) -> "reserved"
    [] OTHER -> "unicast"

(* IPv6.match(base, bits) *)
InCidr6(p, base, bits) ==
  \A i \in 1..8 :
    (p[i] \div Pow2(16 - PartBits(i, 16, bits))) =
      (base[i] \div Pow2(16 - PartBits(i, 16, bits)))

(* IPv6.range() *)
IPv6Range(p) ==
  CASE InCidr6(p, <<0, 0, 0, 0, 0, 0, 0, 0>>, 128) -> "unspecified"
    [] InCidr6(p, <<65152, 0, 0, 0, 0, 0, 0, 0>>, 10) -> "linkLocal"
    [] InCidr6(p, <<65280, 0, 0, 0, 0, 0, 0, 0>>, 8) -> "multicast"
    [] InCidr6(p, <<0, 0, 0, 0, 0, 0, 0, 1>>, 128) -> "loopback"
    [] InCidr6(p, <<64512, 0, 0, 0, 0, 0, 0, 0>>, 7) -> "uniqueLocal"
    [] InCidr6(p, <<0, 0, 0, 0, 0, 65535, 0, 0>>, 96) -> "ipv4Mapped"
    [] InCidr6(p, <<0, 0, 0, 0, 65535, 0, 0, 0>>, 96) -> "rfc6145"
    [] InCidr6(p, <<100, 65435, 0, 0, 0, 0, 0, 0>>, 96) -> "rfc6052"
    [] InCidr6(p, <<8194, 0, 0, 0, 0, 0, 0, 0>>, 16) -> "6to4"
    [] InCidr6(p, <<8193, 0, 0, 0, 0, 0, 0, 0>>, 32) -> "teredo"
    [] InCidr6(p, <<8193, 3512, 0, 0, 0, 0, 0, 0>>, 32) -> "reserved"
    [] OTHER -> "unicast"

isIPv4MappedAddress(p) == IPv6Range(p) = "ipv4Mapped"

(* mutant: the two octets of each part are taken in the wrong order *)
toIPv4Address_Swapped(p) ==
  <<p[7] % 256, p[7] \div 256, p[8] % 256, p[8] \div 256>>

(* IPv6.toIPv4Address(): the low 32 bits as four octets *)
toIPv4Address(p) ==
  <<p[7] \div 256, p[7] % 256, p[8] \div 256, p[8] % 256>>

(* mutant: the shared address space 100.64.0.0/10 is not in the list *)
BlockedV4Ranges_NoCgn ==
  {"private", "loopback", "linkLocal", "broadcast", "unspecified", "reserved", "multicast"}

BlockedV4Ranges ==
  {"private", "loopback", "linkLocal", "broadcast", "unspecified", "reserved",
   "multicast", "carrierGradeNat"}

BlockedV6Ranges ==
  {"loopback", "linkLocal", "uniqueLocal", "unspecified", "multicast", "reserved"}

(* isPrivateOrReservedIPv4, given the octets its ipaddr.parse yields *)
isPrivateOrReservedIPv4(o) == IPv4Range(o) \in BlockedV4Ranges

(* mutant: a parse failure is answered "public" *)
CatchParseError_FailOpen == FALSE

(* catch { return true }: what a call answers when parsing threw *)
CatchParseError == TRUE

isPrivateOrReservedIP(ip) ==
  LET addr == IpaddrParse(ip) IN
    CASE addr.kind = "throw" -> CatchParseError
      [] addr.kind = "ipv4" -> isPrivateOrReservedIPv4(addr.parts)
      [] addr.kind = "ipv6" ->
           IF isIPv4MappedAddress(addr.parts)
           THEN isPrivateOrReservedIPv4(toIPv4Address(addr.parts))
           ELSE IPv6Range(addr.parts) \in BlockedV6Ranges

(* net.isIP: 4, 6, or 0 when the text is no bare IP address *)
isIP(h) ==
  CASE h.k = "ipv4" /\ Len(h.n) = 4 /\ (\A i \in 1..4 : h.n[i] \in 0..255) -> 4
    [] h.k \in {"ipv6", "mapped"} -> 6
    [] OTHER -> 0

(***************************************************************************)
(* Strings and the WHATWG URL parser, as far as validateDomain,            *)
(* normalizeUrl and safeFetch use them.                                    *)
(***************************************************************************)
IsCh(t, c) == t.k = "ch" /\ t.s = c

(* a leading "http://" or "https://" is one token; spelled out it is the   *)
(* scheme's letters, a colon and two slashes                               *)
Spell(t) ==
  IF t.k = "scheme" THEN <<Name(t.s), Ch(":"), Ch("/"), Ch("/")>> ELSE <<t>>

RECURSIVE Chars(_)
Chars(str) == IF str = <<>> THEN <<>> ELSE Spell(Head(str)) \o Chars(Tail(str))

(* String.prototype.includes(c) for a single character c *)
Includes(str, c) ==
  \E i \in 1..Len(Chars(str)) :
    \/ IsCh(Chars(str)[i], c)
    \/ c = ":" /\ Chars(str)[i].k = "port"

(* /[\x00-\x1F\x7F]/.test(str) *)
HasControl(str) ==
  \E i \in 1..Len(str) :
    str[i].k = "ch" /\ str[i].s \in {"tab", "lf", "cr", "ctl", "del"}

IsC0OrSpace(t) == t.k = "ch" /\ t.s \in {" ", "tab", "lf", "cr", "ctl"}

RECURSIVE TrimTrailing(_)
TrimTrailing(str) ==
  IF str # <<>> /\ IsC0OrSpace(str[Len(str)])
  THEN TrimTrailing(SubSeq(str, 1, Len(str) - 1))
  ELSE str

RemoveTabNewline(str) ==
  SelectSeq(str, LAMBDA t : ~(t.k = "ch" /\ t.s \in {"tab", "lf", "cr"}))

(* the first index of str whose token is one of the characters cs, or      *)
(* Len(str) + 1                                                            *)
FirstOf(str, cs) ==
  IF \E i \in 1..Len(str) : str[i].k = "ch" /\ str[i].s \in cs
  THEN CHOOSE i \in 1..Len(str) :
         /\ str[i].k = "ch" /\ str[i].s \in cs
         /\ \A j \in 1..(i - 1) : ~(str[j].k = "ch" /\ str[j].s \in cs)
  ELSE Len(str) + 1

LastAt(str) ==
  IF \E i \in 1..Len(str) : IsCh(str[i], "@")
  THEN CHOOSE i \in 1..Len(str) :
         IsCh(str[i], "@") /\ \A j \in (i + 1)..Len(str) : ~IsCh(str[j], "@")
  ELSE 0

(* String.prototype.toLowerCase / the host parser's ASCII lowercasing *)
ToLowerCase(s) ==
  CASE s = "EXAMPLE.COM" -> "example.com"
    [] s = "LOCALHOST" -> "localhost"
    [] s = "LocalHost" -> "localhost"
    [] OTHER -> s

(* the IPv4 number parser: up to four decimal parts, the last one filling  *)
(* the remaining bytes                                                     *)
Ipv4Ok(parts) ==
  /\ Len(parts) \in 1..4
  /\ \A i \in 1..(Len(parts) - 1) : parts[i] \in 0..255
  /\ (parts[Len(parts)] \div Pow2(8 * (4 - Len(parts)))) \in 0..255

Octets(parts) ==
  [i \in 1..4 |->
     IF i < Len(parts) THEN parts[i]
     ELSE (parts[Len(parts)] \div Pow2(8 * (4 - i))) % 256]

(* the host parser: the hostname as URL.hostname serializes it, kind       *)
(* "name" (lowercased), "ipv4" (canonical dotted quad) or "br6" (an IPv6   *)
(* address, which keeps its brackets); None on failure                     *)
ParseHost(t) ==
  CASE t.k = "name" -> Name(ToLowerCase(t.s))
    [] t.k = "num" /\ Ipv4Ok(t.n) ->
         [k |-> "ipv4", s |-> "", n |-> Octets(t.n)]
    [] t.k = "br6" /\ Len(t.n) = 8 /\ (\A i \in 1..8 : t.n[i] \in 0..65535) -> t
    [] OTHER -> None

UrlFailure ==
  [ok |-> FALSE, scheme |-> "", hostname |-> None, port |-> None, rest |-> <<>>]

NoBase == UrlFailure

IsSlash(t) == t.k = "ch" /\ t.s \in {"/", "bslash"}

RECURSIVE SkipSlashes(_)
SkipSlashes(str) ==
  IF str # <<>> /\ IsSlash(str[1]) THEN SkipSlashes(Tail(str)) ELSE str

RECURSIVE TrimLeading(_)
TrimLeading(str) ==
  IF str # <<>> /\ IsC0OrSpace(str[1]) THEN TrimLeading(Tail(str)) ELSE str

DefaultPort(scheme) ==
  CASE scheme = "https" -> 443
    [] scheme = "http" -> 80
    [] scheme = "ftp" -> 21
    [] OTHER -> 0 - 1

(* the authority and what follows it, for a special scheme: slashes before *)
(* the authority are skipped, the host is what follows the last @, and a   *)
(* port equal to the scheme's default is dropped                           *)
ParseAuthority(scheme, str) ==
  LET t == SkipSlashes(str)
      e == FirstOf(t, {"/", "bslash", "?", "#"})
      auth == SubSeq(t, 1, e - 1)
      hostPart == SubSeq(auth, LastAt(auth) + 1, Len(auth))
      hostOk ==
        /\ Len(hostPart) \in 1..2
        /\ ParseHost(hostPart[1]) # None
        /\ Len(hostPart) = 2 =>
             \/ IsCh(hostPart[2], ":")
             \/ hostPart[2].k = "port" /\ hostPart[2].n[1] \in 0..65535
  IN  IF ~hostOk THEN UrlFailure
      ELSE [ok |-> TRUE,
            scheme |-> scheme,
            hostname |-> ParseHost(hostPart[1]),
            port |-> IF Len(hostPart) = 2 /\ hostPart[2].k = "port"
                        /\ hostPart[2].n[1] # DefaultPort(scheme)
                     THEN hostPart[2] ELSE None,
            rest |-> SubSeq(t, e, Len(t))]

(* the path of a URL up to and including its last slash *)
RECURSIVE Directory(_)
Directory(path) ==
  IF path = <<>> THEN <<Ch("/")>>
  ELSE IF IsSlash(path[Len(path)]) THEN path
  ELSE Directory(SubSeq(path, 1, Len(path) - 1))

PathOf(rest) == SubSeq(rest, 1, FirstOf(rest, {"?", "#"}) - 1)

(* new URL(str, base); base is NoBase for new URL(str) *)
ParseUrl(str, base) ==
  LET t == RemoveTabNewline(TrimTrailing(TrimLeading(str)))
      c == Chars(t)
  IN  IF t # <<>> /\ t[1].k = "scheme"
      THEN ParseAuthority(t[1].s, Chars(Tail(t)))
      ELSE IF t # <<>> /\ t[1].k = "opaque"
      THEN [ok |-> TRUE, scheme |-> t[1].s, hostname |-> Name(""), port |-> None,
            rest |-> Tail(t)]
      ELSE IF ~base.ok
      THEN UrlFailure
      ELSE IF Len(c) >= 2 /\ IsSlash(c[1]) /\ IsSlash(c[2])
      THEN ParseAuthority(base.scheme, c)
      ELSE IF c # <<>> /\ IsSlash(c[1])
      THEN [base EXCEPT !.rest = c]
      ELSE IF c = <<>>
      THEN base
      ELSE IF c[1].k = "ch" /\ c[1].s \in {"?", "#"}
      THEN [base EXCEPT !.rest = PathOf(base.rest) \o c]
      ELSE [base EXCEPT !.rest = Directory(PathOf(base.rest)) \o c]

(* URL.protocol *)
Protocol(url) ==
  CASE url.scheme = "https" -> "https:"
    [] url.scheme = "http" -> "http:"
    [] url.scheme = "ftp" -> "ftp:"
    [] url.scheme = "javascript" -> "javascript:"
    [] OTHER -> "other:"

(* URL.pathname, URL.search and URL.hash, as far as they are compared *)
PathnameIsRoot(url) == Len(PathOf(url.rest)) <= 1

SearchIsEmpty(url) ==
  LET after == SubSeq(url.rest, Len(PathOf(url.rest)) + 1, Len(url.rest))
  IN  after = <<>> \/ ~IsCh(after[1], "?") \/ FirstOf(after, {"#"}) = 2

HashIsEmpty(url) == FirstOf(url.rest, {"#"}) >= Len(url.rest)

(* the text of a parsed hostname *)
HostText(hostname) ==
  IF hostname.k = "ipv4" THEN Num(hostname.n) ELSE hostname

(* URL.host: the hostname and, when it is not the default, the port *)
UrlHost(url) ==
  <<HostText(url.hostname)>> \o (IF url.port # None THEN <<url.port>> ELSE <<>>)

(* URL.toString() *)
UrlToString(url) ==
  IF url.scheme \in {"https", "http", "ftp"}
  THEN <<Scheme(url.scheme)>> \o UrlHost(url) \o
       (IF url.rest = <<>> \/ ~IsSlash(url.rest[1]) THEN <<Ch("/")>> ELSE <<>>) \o
       url.rest
  ELSE <<Opaque(url.scheme)>> \o url.rest

(* new URL("https://" + str) *)
ParseHttpsUrl(str) == ParseUrl(<<Scheme("https")>> \o str, NoBase)

(***************************************************************************)
(* security.ts: validateDomain                                             *)
(***************************************************************************)
Reason(kind, ch, addr, host) == [kind |-> kind, ch |-> ch, addr |-> addr, host |-> host]

NoReason == Reason("none", "", None, None)

Reject(reason) == [valid |-> FALSE, reason |-> reason]

Accept == [valid |-> TRUE, reason |-> NoReason]

NoResult == [valid |-> FALSE, reason |-> Reason("pending", "", None, None)]

(* what a call has done when it reaches its first suspension point or its  *)
(* end: returned a result, thrown, or suspended in lookup(hostname)        *)
Returned(result) == [at |-> "returned", result |-> result, hostname |-> None]

Threw == [at |-> "threw", result |-> NoResult, hostname |-> None]

Awaiting(hostname) == [at |-> "lookup", result |-> NoResult, hostname |-> hostname]

invalidChars == <<"#", "?", "/", "bslash", " ", "tab", "lf", "cr">>

(* the first entry of invalidChars the domain includes, "" when none *)
FirstInvalidChar(domain) ==
  IF \E i \in 1..Len(invalidChars) : Includes(domain, invalidChars[i])
  THEN invalidChars[CHOOSE i \in 1..Len(invalidChars) :
         /\ Includes(domain, invalidChars[i])
         /\ \A j \in 1..(i - 1) : ~Includes(domain, invalidChars[j])]
  ELSE ""

(* mutant: the URL constructor's error escapes *)
CatchUrlError_Escapes(domain) == Threw

(* catch around new URL(...) *)
CatchUrlError(domain) == Returned(Reject(Reason("format", "", None, None)))

(* the literal-IP branch *)
ClassifyLiteral(hostname) ==
  IF isPrivateOrReservedIP(hostname)
  THEN Returned(Reject(Reason("private_ip", "", hostname, hostname)))
  ELSE Returned(Accept)

(* validateDomain up to its await of lookup(hostname, {all: true}) *)
validateDomainSync(domain) ==
  LET parsedUrl == ParseHttpsUrl(domain)
      hostname == parsedUrl.hostname
  IN  IF FirstInvalidChar(domain) # ""
      THEN Returned(Reject(Reason("invalid_char", FirstInvalidChar(domain), None, None)))
      ELSE IF HasControl(Chars(domain))
      THEN Returned(Reject(Reason("control", "", None, None)))
      ELSE IF Includes(domain, "@")
      THEN Returned(Reject(Reason("userinfo", "", None, None)))
      ELSE IF ~parsedUrl.ok
      THEN CatchUrlError(domain)
      ELSE IF ~PathnameIsRoot(parsedUrl)
      THEN Returned(Reject(Reason("path", "", None, None)))
      ELSE IF ~SearchIsEmpty(parsedUrl)
      THEN Returned(Reject(Reason("query", "", None, None)))
      ELSE IF ~HashIsEmpty(parsedUrl)
      THEN Returned(Reject(Reason("fragment", "", None, None)))
      ELSE IF isIP(hostname) # 0
      THEN ClassifyLiteral(hostname)
      ELSE IF ToLowerCase(hostname.s) = "localhost"
      THEN Returned(Reject(Reason("localhost", "", None, None)))
      ELSE Awaiting(hostname)

(* the outcome of a lookup: the answer set, or an error with its code      *)
(* ("" when the error carries none)                                        *)
Answer(addresses) == [ok |-> TRUE, addresses |-> addresses, code |-> ""]

LookupError(code) == [ok |-> FALSE, addresses |-> <<>>, code |-> code]

(* mutant: only the first address of the answer is classified *)
FirstPrivate_HeadOnly(addresses) ==
  IF addresses # <<>> /\ isPrivateOrReservedIP(addresses[1]) THEN addresses[1] ELSE None

(* the first address of the answer the classifier rejects, None when none *)
FirstPrivate(addresses) ==
  IF \E i \in 1..Len(addresses) : isPrivateOrReservedIP(addresses[i])
  THEN addresses[CHOOSE i \in 1..Len(addresses) :
         /\ isPrivateOrReservedIP(addresses[i])
         /\ \A j \in 1..(i - 1) : ~isPrivateOrReservedIP(addresses[j])]
  ELSE None

(* catch around the lookup and the loop over its addresses *)
CatchLookupError(hostname, code) ==
  Returned(Reject(Reason("dns", code, None, hostname)))

(* validateDomain from the settled lookup to its return *)
validateDomainResume(hostname, outcome) ==
  IF ~outcome.ok
  THEN CatchLookupError(hostname, outcome.code)
  ELSE IF FirstPrivate(outcome.addresses) # None
  THEN Returned(Reject(Reason("resolves_private", "",
                              FirstPrivate(outcome.addresses), hostname)))
  ELSE Returned(Accept)

(***************************************************************************)
(* utils.ts: safeFetch                                                     *)
(***************************************************************************)
Err(kind, addr, code) == [kind |-> kind, addr |-> addr, code |-> code]

NoError == Err("none", None, "")

(* a response as safeFetch reads it: its status, its Location header and   *)
(* the state of its body stream ("intact" as the transport hands it over); *)
(* kind "network_error" or "abort" is a fetch that rejected instead        *)
Header(present, value) == [present |-> present, value |-> value]

Response(status, location) ==
  [kind |-> "response", status |-> status, location |-> location, body |-> "intact"]

FetchRejected(kind) ==
  [kind |-> kind, status |-> 0, location |-> Header(FALSE, <<>>), body |-> "none"]

NoResponse ==
  [kind |-> "none", status |-> 0, location |-> Header(FALSE, <<>>), body |-> "none"]

(* what one stretch of safeFetch between two suspension points ends in:    *)
(* at "lookup" it awaits lookup(hostname), at "fetch" it awaits the        *)
(* response of the request it issued, at "returned" and "threw" it is over *)
Step(at, url, count, hostname, error, response, cancelled) ==
  [at |-> at, url |-> url, count |-> count, hostname |-> hostname,
   error |-> error, response |-> response, cancelled |-> cancelled]

(* mutant: ftp is let through as well *)
SchemeAllowed_Ftp(protocol) == protocol \in {"http:", "https:", "ftp:"}

(* ['http:', 'https:'].includes(protocol) *)
SchemeAllowed(protocol) == protocol \in {"http:", "https:"}

(* the loop condition *)
LoopContinues(redirectCount, maxRedirects) == redirectCount <= maxRedirects

(* from the loop condition to the await of lookup(hostname) *)
safeFetchLoopHead(currentUrl, redirectCount, maxRedirects, cancelled) ==
  LET parsedUrl == ParseUrl(currentUrl, NoBase) IN
    IF ~LoopContinues(redirectCount, maxRedirects)
    THEN Step("threw", currentUrl, redirectCount, None,
              Err("unexpected_loop", None, ""), NoResponse, cancelled)
    ELSE IF ~parsedUrl.ok
    THEN Step("threw", currentUrl, redirectCount, None,
              Err("invalid_url", None, ""), NoResponse, cancelled)
    ELSE IF ~SchemeAllowed(Protocol(parsedUrl))
    THEN Step("threw", currentUrl, redirectCount, None,
              Err("unsafe_scheme", None, Protocol(parsedUrl)), NoResponse, cancelled)
    ELSE Step("lookup", currentUrl, redirectCount, parsedUrl.hostname,
              NoError, NoResponse, cancelled)

(* the catch around the lookup: ENOTFOUND and EAI_AGAIN are wrapped, any   *)
(* other error is thrown on as it is                                       *)
safeFetchCatch(code) ==
  IF code \in {"ENOTFOUND", "EAI_AGAIN"}
  THEN Err("dns_failed", None, code)
  ELSE Err("dns_rethrown", None, code)

(* mutant: the addresses are classified on the first hop only *)
safeFetchAfterLookup_FirstHopOnly(currentUrl, redirectCount, hostname, outcome, cancelled) ==
  IF ~outcome.ok
  THEN Step("threw", currentUrl, redirectCount, hostname,
            safeFetchCatch(outcome.code), NoResponse, cancelled)
  ELSE IF redirectCount = 0 /\ FirstPrivate(outcome.addresses) # None
  THEN Step("threw", currentUrl, redirectCount, hostname,
            Err("private_ip", FirstPrivate(outcome.addresses), ""), NoResponse, cancelled)
  ELSE Step("fetch", currentUrl, redirectCount, hostname, NoError, NoResponse, cancelled)

(* mutant: a resolver error other than not-found is taken as no finding *)
safeFetchAfterLookup_FailOpen(currentUrl, redirectCount, hostname, outcome, cancelled) ==
  IF ~outcome.ok /\ outcome.code \in {"ENOTFOUND", "EAI_AGAIN"}
  THEN Step("threw", currentUrl, redirectCount, hostname,
            safeFetchCatch(outcome.code), NoResponse, cancelled)
  ELSE IF outcome.ok /\ FirstPrivate(outcome.addresses) # None
  THEN Step("threw", currentUrl, redirectCount, hostname,
            Err("private_ip", FirstPrivate(outcome.addresses), ""), NoResponse, cancelled)
  ELSE Step("fetch", currentUrl, redirectCount, hostname, NoError, NoResponse, cancelled)

(* from the settled lookup to the await of fetchWithTimeout(currentUrl) *)
safeFetchAfterLookup(currentUrl, redirectCount, hostname, outcome, cancelled) ==
  IF ~outcome.ok
  THEN Step("threw", currentUrl, redirectCount, hostname,
            safeFetchCatch(outcome.code), NoResponse, cancelled)
  ELSE IF FirstPrivate(outcome.addresses) # None
  THEN Step("threw", currentUrl, redirectCount, hostname,
            Err("private_ip", FirstPrivate(outcome.addresses), ""), NoResponse, cancelled)
  ELSE Step("fetch", currentUrl, redirectCount, hostname, NoError, NoResponse, cancelled)

(* response.status >= 300 && response.status < 400 *)
IsRedirect(status) == status >= 300 /\ status < 400

(* mutant: the header is never found missing *)
LocationMissing_Never(location) == FALSE

(* !location, for the value of headers.get('Location') *)
LocationMissing(location) == ~location.present \/ location.value = <<>>

(* mutant: the limit is compared one too late *)
TooManyRedirects_OffByOne(redirectCount, maxRedirects) == redirectCount > maxRedirects + 1

(* redirectCount > maxRedirects, after the increment *)
TooManyRedirects(redirectCount, maxRedirects) == redirectCount > maxRedirects

(* fetchWithTimeout up to its await of fetch: the timer is set and the     *)
(* request goes out with redirect: 'manual'                                *)
fetchWithTimeoutStart == [timer |-> "armed", redirect |-> "manual"]

(* mutant: the failure exit leaves the timer as it is *)
fetchWithTimeoutCatch_NoClear(timer) == timer

(* the catch of fetchWithTimeout: clearTimeout(timeout), then rethrow *)
fetchWithTimeoutCatch(timer) == "cleared"

(* the timer after fetchWithTimeout has settled with the given outcome *)
fetchWithTimeoutSettled(response, timer) ==
  IF response.kind = "response" THEN "cleared" ELSE fetchWithTimeoutCatch(timer)

(* what the fetch of fetchWithTimeout may settle with: the abort error     *)
(* once controller.abort() has run, anything but it before                 *)
FetchOutcomes(all, aborted) ==
  IF aborted THEN {r \in all : r.kind = "abort"} ELSE {r \in all : r.kind # "abort"}

(* mutant: a redirect's body is left as it is *)
CancelBody_Skipped(cancelled) == cancelled

(* response.body?.cancel() on a redirect response: one more body cancelled *)
CancelBody(cancelled) == cancelled + 1

(* return response *)
ReturnResponse(response) == response

(* from the settled fetchWithTimeout to the next suspension point *)
safeFetchAfterResponse(currentUrl, redirectCount, maxRedirects, hostname, response, cancelled) ==
  LET next == ParseUrl(response.location.value, ParseUrl(currentUrl, NoBase)) IN
    IF response.kind # "response"
    THEN Step("threw", currentUrl, redirectCount, hostname,
              Err(response.kind, None, ""), NoResponse, cancelled)
    ELSE IF ~IsRedirect(response.status)
    THEN Step("returned", currentUrl, redirectCount, hostname, NoError,
              ReturnResponse(response), cancelled)
    ELSE IF LocationMissing(response.location)
    THEN Step("threw", currentUrl, redirectCount, hostname,
              Err("missing_location", None, ""), NoResponse, CancelBody(cancelled))
    ELSE IF TooManyRedirects(redirectCount + 1, maxRedirects)
    THEN Step("threw", currentUrl, redirectCount + 1, hostname,
              Err("too_many_redirects", None, ""), NoResponse, CancelBody(cancelled))
    ELSE IF ~next.ok
    THEN Step("threw", currentUrl, redirectCount + 1, hostname,
              Err("invalid_url", None, ""), NoResponse, CancelBody(cancelled))
    ELSE safeFetchLoopHead(UrlToString(next), redirectCount + 1, maxRedirects,
                           CancelBody(cancelled))

(***************************************************************************)
(* utils.ts: normalizeUrl, buildUrl, calculateScore                        *)
(***************************************************************************)
normalizeUrl(domain) ==
  LET d1 == IF domain # <<>> /\ domain[1].k = "scheme" /\ domain[1].s \in {"http", "https"}
            THEN Tail(domain) ELSE domain
      d2 == IF d1 # <<>> /\ IsCh(d1[Len(d1)], "/")
            THEN SubSeq(d1, 1, Len(d1) - 1) ELSE d1
      d3 == SubSeq(Chars(d2), 1, FirstOf(Chars(d2), {"/"}) - 1)
      url == ParseHttpsUrl(d3)
  IN  IF Includes(d3, "@") THEN d3
      ELSE IF url.ok THEN UrlHost(url)
      ELSE d3

buildUrl(domain, path) == <<Scheme("https")>> \o normalizeUrl(domain) \o path

(* mutant: the quotient is truncated *)
RoundDiv_Floor(x, total) == x \div total

(* Math.round(x / total) for x >= 0: halves round up *)
RoundDiv(x, total) == (2 * x + total) \div (2 * total)

(* calculateScore, for the statuses of the checks; no number when there is *)
(* no check (0 / 0)                                                        *)
calculateScore(statuses) ==
  LET passCount == Cardinality({i \in DOMAIN statuses : statuses[i] = "pass"})
      warnCount == Cardinality({i \in DOMAIN statuses : statuses[i] = "warn"})
      total == Cardinality(DOMAIN statuses)
  IN  IF total = 0 THEN 0 - 1
      ELSE RoundDiv(passCount * 100 + warnCount * 50, total)

(***************************************************************************)
(* utils.ts: readResponseText, readResponseJson                            *)
(***************************************************************************)
MAX_RESPONSE_SIZE == 262144

(* the value of headers.get('Content-Length'): absent, or a text that      *)
(* parseInt(text, 10) turns into a number or into NaN                      *)
ContentLength(present, nan, n) == [present |-> present, nan |-> nan, n |-> n]

(* mutant: the declared length is never looked at *)
DeclaredTooLarge_Never(contentLength) == FALSE

(* contentLength && parseInt(contentLength, 10) > MAX_RESPONSE_SIZE *)
DeclaredTooLarge(contentLength) ==
  contentLength.present /\ ~contentLength.nan /\ contentLength.n > MAX_RESPONSE_SIZE

(* mutant: the running total is compared with twice the ceiling *)
Overflows_Doubled(size) == size > 2 * MAX_RESPONSE_SIZE

(* totalSize > MAX_RESPONSE_SIZE, likewise for text.length and             *)
(* stringified.length                                                      *)
Overflows(size) == size > MAX_RESPONSE_SIZE

(* a response as the readers see it: the declared length, whether it has a *)
(* body stream and a json method, the chunks the stream yields and how it  *)
(* ends ("done" or "error"), what text() and JSON.stringify(json()) would  *)
(* measure for a response without a stream, and whether the content is     *)
(* well-formed JSON                                                        *)
Readable(contentLength, hasBody, hasJson, chunks, ends, textLen, stringifiedLen, wellFormed) ==
  [contentLength |-> contentLength, hasBody |-> hasBody, hasJson |-> hasJson,
   chunks |-> chunks, ends |-> ends, textLen |-> textLen,
   stringifiedLen |-> stringifiedLen, wellFormed |-> wellFormed]

(* where a reader stands: pc "reading" awaits reader.read(), "text" awaits *)
(* response.text(), "json" awaits response.json(); lock is the reader's    *)
(* lock on the stream and stream the state of the body stream              *)
ReadState(pc, rest, total, buffered, reads, lock, stream, error, value, parses) ==
  [pc |-> pc, rest |-> rest, total |-> total, buffered |-> buffered, reads |-> reads,
   lock |-> lock, stream |-> stream, error |-> error, value |-> value,
   parses |-> parses]

ReadIdle == ReadState("idle", <<>>, 0, 0, 0, "none", "open", "none", "none", 0)

(* try { return JSON.parse(text) } catch { throw new Error('Invalid JSON') } *)
JsonParse(st, wellFormed) ==
  IF wellFormed
  THEN [st EXCEPT !.pc = "returned", !.value = "data", !.parses = @ + 1]
  ELSE [st EXCEPT !.pc = "threw", !.error = "invalid_json", !.parses = @ + 1]

(* readResponseText has returned its text: the caller has it, or           *)
(* readResponseJson goes on to parse it                                    *)
TextReturned(fn, st, wellFormed) ==
  IF fn = "json" THEN JsonParse(st, wellFormed)
  ELSE [st EXCEPT !.pc = "returned", !.value = "text"]

(* the finally of the read loop: reader.releaseLock() *)
ReleaseLock(st) == [st EXCEPT !.lock = "released"]

(* readResponseText up to its first await *)
readResponseTextBegin(response) ==
  IF DeclaredTooLarge(response.contentLength)
  THEN [ReadIdle EXCEPT !.pc = "threw", !.error = "too_large"]
  ELSE IF response.hasBody
  THEN [ReadIdle EXCEPT !.pc = "reading", !.rest = response.chunks, !.lock = "locked",
                        !.reads = 1]
  ELSE [ReadIdle EXCEPT !.pc = "text"]

(* typeof response.json === 'function' && !response.body *)
UsesJsonMethod(response) == response.hasJson /\ ~response.hasBody

(* readResponseJson up to its first await *)
readResponseJsonBegin(response) ==
  IF UsesJsonMethod(response)
  THEN [ReadIdle EXCEPT !.pc = "json"]
  ELSE readResponseTextBegin(response)

(* the awaited reader.read() settles: the loop body, to the next read or   *)
(* out of the loop                                                         *)
readSettles(fn, response, st) ==
  IF st.rest = <<>>
  THEN IF response.ends = "error"
       THEN ReleaseLock([st EXCEPT !.pc = "threw", !.error = "read_error",
                                   !.stream = "errored"])
       ELSE TextReturned(fn, ReleaseLock([st EXCEPT !.stream = "closed"]),
                         response.wellFormed)
  ELSE IF Overflows(st.total + Head(st.rest))
  THEN ReleaseLock([st EXCEPT !.pc = "threw", !.error = "exceeded",
                              !.total = @ + Head(st.rest), !.rest = Tail(@)])
  ELSE [st EXCEPT !.total = @ + Head(st.rest), !.buffered = @ + Head(st.rest),
                  !.rest = Tail(@), !.reads = @ + 1]

(* the awaited response.text() settles *)
textSettles(fn, response, st) ==
  IF Overflows(response.textLen)
  THEN [st EXCEPT !.pc = "threw", !.error = "exceeded"]
  ELSE TextReturned(fn, st, response.wellFormed)

(* the awaited response.json() settles: it rejects on content it cannot    *)
(* parse, else the stringified data is measured                            *)
jsonSettles(response, st) ==
  IF ~response.wellFormed
  THEN [st EXCEPT !.pc = "threw", !.error = "syntax_error", !.parses = @ + 1]
  ELSE IF Overflows(response.stringifiedLen)
  THEN [st EXCEPT !.pc = "threw", !.error = "exceeded", !.parses = @ + 1]
  ELSE [st EXCEPT !.pc = "returned", !.value = "data", !.parses = @ + 1]

(***************************************************************************)
(* Concurrent invocations.  Every invocation of validateDomain, safeFetch  *)
(* and readResponseText keeps its state in its own locals (let currentUrl, *)
(* let redirectCount, let totalSize, const hostname); a frame holds the    *)
(* locals of one invocation between two suspension points.                 *)
(***************************************************************************)
Calls == {1, 2}

(* mutant: one set of locals for all invocations, as module-level state *)
FrameOf_Shared(i) == 1

(* the frame of invocation i: its own *)
FrameOf(i) == i

Call(fn, arg, max, events) == [fn |-> fn, arg |-> arg, max |-> max, events |-> events]

NoCall == Call("none", <<>>, 0, <<>>)

Frame(fn, max, st) == [fn |-> fn, max |-> max, st |-> st]

NoFrame == Frame("none", 0, [at |-> "none"])

(* the invocation up to its first suspension point *)
CallBegin(fn, arg, max) ==
  CASE fn = "validateDomain" -> Frame(fn, max, validateDomainSync(arg))
    [] fn = "safeFetch" -> Frame(fn, max, safeFetchLoopHead(arg, 0, max, 0))
    [] fn = "readResponseText" ->
         Frame(fn, max, [at |-> readResponseTextBegin(arg).pc, response |-> arg,
                         rd |-> readResponseTextBegin(arg)])

(* the invocation from a settled await to its next suspension point *)
CallAdvance(frame, ev) ==
  LET st == frame.st IN
    CASE frame.fn = "validateDomain" ->
           Frame(frame.fn, frame.max, validateDomainResume(st.hostname, ev))
      [] frame.fn = "safeFetch" /\ st.at = "lookup" ->
           Frame(frame.fn, frame.max,
                 safeFetchAfterLookup(st.url, st.count, st.hostname, ev, st.cancelled))
      [] frame.fn = "safeFetch" /\ st.at = "fetch" ->
           Frame(frame.fn, frame.max,
                 safeFetchAfterResponse(st.url, st.count, frame.max, st.hostname, ev,
                                        st.cancelled))
      [] frame.fn = "readResponseText" ->
           LET rd2 == IF st.at = "reading" THEN readSettles("text", st.response, st.rd)
                      ELSE textSettles("text", st.response, st.rd)
           IN  Frame(frame.fn, frame.max, [st EXCEPT !.at = rd2.pc, !.rd = rd2])
      [] OTHER -> frame

(***************************************************************************)
(* scanners/: scanA2AAgentCard, scanLlmsTxt, scanHealth, scanMCP.  A       *)
(* scanner's state between two awaits: where it stands (pc), the path it   *)
(* is at, the safeFetch calls it made (fetches), the connections that were *)
(* asked for (conns), and its CheckResult once it has returned.            *)
(***************************************************************************)
ScannerPaths(scanner) ==
  CASE scanner = "a2a_agent_card" ->
         <<<<Ch("/"), Name(".well-known"), Ch("/"), Name("agent.json")>>>>
    [] scanner = "llms_txt" -> <<<<Ch("/"), Name("llms.txt")>>>>
    [] scanner = "health" -> <<<<Ch("/")>>>>
    [] scanner = "mcp" ->
         <<<<Ch("/"), Name(".well-known"), Ch("/"), Name("mcp.json")>>,
           <<Ch("/"), Name("mcp.json")>>>>

CheckResult(status, detected) == [status |-> status, detected |-> detected]

NoCheckResult == CheckResult("none", FALSE)

(* a connection a scanner asked for: through safeFetch or checkTLS, after  *)
(* the lookup that settled with the outcome, opened or not                 *)
Conn(via, outcome, opened) == [via |-> via, outcome |-> outcome, opened |-> opened]

(* await safeFetch(url[, 5000]) from its call to its settling, for a       *)
(* response that is no redirect: the loop head, then the lookup settles    *)
(* (ScannerSafeFetchLookup), then the request settles                      *)
(* (ScannerSafeFetchSettle); ScannerFetched is what the scanner sees of it *)
ScannerSafeFetchHead(url) == safeFetchLoopHead(url, 0, 5, 0)

ScannerSafeFetchLookup(head, outcome) ==
  IF head.at = "lookup"
  THEN safeFetchAfterLookup(head.url, 0, head.hostname, outcome, 0) ELSE head

ScannerSafeFetchSettle(st1, response) ==
  IF st1.at = "fetch"
  THEN safeFetchAfterResponse(st1.url, 0, 5, st1.hostname, response, 0) ELSE st1

ScannerFetched(head, st1, st2) ==
  [looked |-> head.at = "lookup", opened |-> st1.at = "fetch", st |-> st2]

(* response.ok *)
IsOk(response) == response.status >= 200 /\ response.status <= 299

ScannerState(scanner, domain, pc, path, fetches, conns, schemaError, ok, left, broken, result) ==
  [scanner |-> scanner, domain |-> domain, pc |-> pc, path |-> path, fetches |-> fetches,
   conns |-> conns, schemaError |-> schemaError, ok |-> ok, left |-> left,
   broken |-> broken, result |-> result]

ScannerIdle ==
  ScannerState("none", <<>>, "idle", 0, <<>>, <<>>, FALSE, FALSE, 0, FALSE, NoCheckResult)

(* return { status, ... } *)
ScannerReturns(n, status, detected) ==
  [n EXCEPT !.pc = "returned", !.result = CheckResult(status, detected)]

(* the scanner up to its first await: scanHealth parses the URL it built   *)
(* before its try block, the others build it inside                        *)
ScannerBegin(scanner, domain) ==
  IF scanner = "health" /\ ~ParseUrl(buildUrl(domain, <<Ch("/")>>), NoBase).ok
  THEN [ScannerIdle EXCEPT !.scanner = scanner, !.domain = domain, !.pc = "threw"]
  ELSE [ScannerIdle EXCEPT !.scanner = scanner, !.domain = domain,
                           !.pc = "fetch", !.path = 1]

(* mutant: scanHealth lets the error of its fetch escape *)
ScannerCatch_HealthRethrows(n) ==
  IF n.scanner = "health" THEN [n EXCEPT !.pc = "threw"] ELSE ScannerReturns(n, "fail", FALSE)

(* the catch of scanA2AAgentCard, scanLlmsTxt and scanHealth *)
ScannerCatch(n) == ScannerReturns(n, "fail", FALSE)

(* mutant: scanMCP gives up after its first path *)
McpNextPath_FirstOnly(n) ==
  IF n.schemaError THEN ScannerReturns(n, "warn", TRUE) ELSE ScannerReturns(n, "warn", FALSE)

(* scanMCP: continue with the next path, or leave the loop: the saved      *)
(* schema error if there is one, else "no MCP server metadata found"       *)
McpNextPath(n) ==
  IF n.path < Len(ScannerPaths("mcp"))
  THEN [n EXCEPT !.pc = "fetch", !.path = @ + 1]
  ELSE IF n.schemaError THEN ScannerReturns(n, "warn", TRUE)
  ELSE ScannerReturns(n, "warn", FALSE)

(* the scanner from its settled safeFetch to its next await or its return; *)
(* ctype is what headers.get('content-type') includes                      *)
ScannerAfterFetch(n, fetched, ctype) ==
  LET response == fetched.st.response IN
    CASE n.scanner = "mcp" ->
           IF fetched.st.at = "threw" \/ ~IsOk(response) \/ ctype # "json"
           THEN McpNextPath(n)
           ELSE [n EXCEPT !.pc = "read"]
      [] fetched.st.at = "threw" -> ScannerCatch(n)
      [] n.scanner = "health" -> [n EXCEPT !.pc = "tls", !.ok = IsOk(response)]
      [] ~IsOk(response) ->
           ScannerReturns(n, IF response.status = 404 THEN "warn" ELSE "fail", FALSE)
      [] n.scanner = "a2a_agent_card" /\ ctype # "json" ->
           ScannerReturns(n, IF ctype = "html" THEN "warn" ELSE "fail", FALSE)
      [] OTHER -> [n EXCEPT !.pc = "read"]

(* the scanner from its settled readResponseJson / readResponseText: read  *)
(* is "valid", "invalid" (schema or format) or the error thrown; links is  *)
(* how many links of a valid llms.txt are sampled                          *)
ScannerAfterRead(n, read, links) ==
  CASE n.scanner = "mcp" ->
         IF read = "valid" THEN ScannerReturns(n, "pass", TRUE)
         ELSE IF read = "invalid" THEN McpNextPath([n EXCEPT !.schemaError = TRUE])
         ELSE McpNextPath(n)
    [] read \notin {"valid", "invalid"} -> ScannerCatch(n)
    [] read = "invalid" -> ScannerReturns(n, "fail", FALSE)
    [] n.scanner = "llms_txt" /\ links > 0 -> [n EXCEPT !.pc = "links", !.left = links]
    [] OTHER -> ScannerReturns(n, "pass", FALSE)

(* checkLink(link, url): new URL(url, baseUrl); no request for a link that *)
(* is no URL or has another scheme; else safeFetch(absoluteUrl, 5000)      *)
checkLinkTarget(link, base) == ParseUrl(link, ParseUrl(base, NoBase))

checkLinkRequests(absolute) == absolute.ok /\ SchemeAllowed(Protocol(absolute))

(* what safeFetch is called with; a link that is not requested gives a URL *)
(* nothing is done with                                                    *)
checkLinkUrl(absolute) == IF absolute.ok THEN UrlToString(absolute) ELSE <<>>

(* reachable: response.ok; the catch gives not reachable *)
checkLinkReachable(requested, fetched) ==
  requested /\ fetched.st.at = "returned" /\ IsOk(fetched.st.response)

(* mutant: the socket is opened whatever the lookup gave *)
checkTLS_Unchecked(outcome, tls) == [connects |-> TRUE, valid |-> tls = "valid", soon |-> FALSE]

(* checkTLS: the lookup, the classification of every address, and only     *)
(* then tls.connect; tls is what the handshake gives                       *)
checkTLS(outcome, tls) ==
  IF ~outcome.ok \/ FirstPrivate(outcome.addresses) # None
  THEN [connects |-> FALSE, valid |-> FALSE, soon |-> FALSE]
  ELSE [connects |-> TRUE, valid |-> tls \in {"valid", "expiring"}, soon |-> tls = "expiring"]

(* scanHealth: the status from the response, the TLS finding, the latency *)
scanHealthStatus(ok, tlsInfo, slow) ==
  LET s1 == IF ~ok THEN "warn" ELSE "pass"
      s2 == IF ~tlsInfo.valid THEN "fail" ELSE IF tlsInfo.soon THEN "warn" ELSE s1
  IN  IF slow /\ s2 = "pass" THEN "warn" ELSE s2

(***************************************************************************)
(* cli.ts: the action of the command                                       *)
(***************************************************************************)
CONCURRENCY == 5

Report(domain, score, checks) == [domain |-> domain, score |-> score, checks |-> checks]

Pending == Report(0, 0, <<>>)

(* the report put in the place of a scan that threw *)
FailedReport(d) == Report(d, 0, <<"fail", "fail", "fail", "fail">>)

(* mutant: a report counts only when every check failed *)
HasFailure_AllFailed(report) == \A i \in 1..Len(report.checks) : report.checks[i] = "fail"

(* Object.values(report.checks).filter(c => c.status === 'fail').length > 0 *)
HasFailure(report) == \E i \in 1..Len(report.checks) : report.checks[i] = "fail"

(* mutant: every remaining domain is scanned at once *)
BatchOf_All(i, n) == (i + 1)..n

(* domains.slice(i, i + CONCURRENCY), as positions in the list *)
BatchOf(i, n) == (i + 1)..(IF i + CONCURRENCY < n THEN i + CONCURRENCY ELSE n)

(* process.exit(hasFailures ? 1 : 0) *)
ExitCode(hasFailures) == IF hasFailures THEN 1 ELSE 0

(***************************************************************************)
(* The resolver and the inputs the model draws from.                       *)
(***************************************************************************)
MaxAnswers == 2

Loopback6 == <<0, 0, 0, 0, 0, 0, 0, 1>>

GoogleDns6 == <<8193, 18528, 18528, 0, 0, 0, 0, 34952>>

SampleAddresses ==
  {V4(8, 8, 8, 8), V6(GoogleDns6), V4(169, 254, 169, 254), V6(Loopback6),
   Mapped(10, 0, 0, 1)}

RECURSIVE SeqsUpTo(_, _)
SeqsUpTo(S, n) ==
  IF n = 0 THEN {<<>>}
  ELSE SeqsUpTo(S, n - 1) \cup
       {Append(q, x) : q \in {r \in SeqsUpTo(S, n - 1) : Len(r) = n - 1}, x \in S}

AnswerSets == SeqsUpTo(SampleAddresses, MaxAnswers)

ErrorCodes == {"ENOTFOUND", "EAI_AGAIN", "EAI_FAIL", ""}

NoOutcome == [ok |-> FALSE, addresses |-> <<>>, code |-> "none"]

(* lookup(hostname, {all: true}): a bare IP address is answered with       *)
(* itself without a query, a bracketed address is no name getaddrinfo      *)
(* resolves, and for a name the resolver may give any answer or error      *)
LookupOutcomes(hostname) ==
  IF isIP(hostname) # 0 THEN {Answer(<<hostname>>)}
  ELSE IF hostname.k = "br6" THEN {LookupError(c) : c \in ErrorCodes}
  ELSE {Answer(a) : a \in AnswerSets} \cup {LookupError(c) : c \in ErrorCodes}

SampleNames ==
  {"example.com", "EXAMPLE.COM", "localhost", "LocalHost", "LOCALHOST", "localhost.",
   "evil.com"}

HostTokens ==
  {Name(s) : s \in SampleNames} \cup
  {Num(<<127, 0, 0, 1>>), Num(<<8, 8, 8, 8>>), Num(<<169, 254, 169, 254>>),
   Num(<<127, 1>>), Num(<<2130706433>>), Num(<<1, 1, 1, 256>>),
   Br6(Loopback6), Br6(GoogleDns6)}

BaseDomains ==
  {<<h>> : h \in HostTokens} \cup
  {<<h, Port(8080)>> : h \in HostTokens} \cup
  {<<>>,
   <<Name("user"), Ch(":"), Name("pass"), Ch("@"), Name("evil.com")>>,
   <<Scheme("https"), Name("example.com")>>}

SpecialChars ==
  {"#", "?", "/", "bslash", " ", "tab", "lf", "cr", "ctl", "del", "@", "%", ":"}

InsertAt(str, i, t) == SubSeq(str, 1, i) \o <<t>> \o SubSeq(str, i + 1, Len(str))

(* every base domain, and every base domain with one special character     *)
(* put in at any position                                                  *)
Domains ==
  BaseDomains \cup
  UNION {{InsertAt(b, i, Ch(c)) : i \in 0..Len(b), c \in SpecialChars} :
           b \in BaseDomains}

(* the URLs safeFetch is called with *)
StartUrls ==
  {<<Scheme("https"), Name("example.com"), Ch("/")>>,
   <<Scheme("http"), Name("EXAMPLE.COM"), Port(8080), Ch("/"), Name("mcp.json")>>,
   <<Scheme("https"), Num(<<169, 254, 169, 254>>), Ch("/")>>,
   <<Scheme("https"), Br6(GoogleDns6), Ch("/")>>,
   <<Scheme("ftp"), Name("example.com"), Ch("/")>>,
   <<Opaque("javascript")>>,
   <<Name("example.com")>>}

(* the values a server may put in a Location header *)
Locations ==
  {<<Scheme("https"), Name("evil.com"), Ch("/")>>,
   <<Scheme("http"), Num(<<169, 254, 169, 254>>), Ch("/"), Name("latest")>>,
   <<Ch("/"), Name("next")>>,
   <<Ch("/"), Ch("/"), Name("localhost"), Ch("/")>>,
   <<Scheme("ftp"), Name("example.com"), Ch("/")>>,
   <<Opaque("javascript")>>,
   <<Scheme("https")>>,
   <<>>}

Statuses == {200, 299, 300, 302, 399, 400, 404}

(* what a request may settle with *)
Responses ==
  {Response(st, Header(TRUE, l)) : st \in Statuses, l \in Locations} \cup
  {Response(st, Header(FALSE, <<>>)) : st \in Statuses} \cup
  {FetchRejected("network_error"), FetchRejected("abort")}

MaxRedirectsBound == 2

(* what scanDomain is called with: bare domains, and domains as a user     *)
(* pastes them, with a scheme, a path, a trailing slash or a stray         *)
(* character                                                               *)
RawDomains ==
  {<<Name("example.com")>>,
   <<Name("EXAMPLE.COM"), Port(8080)>>,
   <<Scheme("https"), Name("example.com"), Ch("/"), Name("path"), Ch("/")>>,
   <<Scheme("http"), Name("evil.com"), Port(443), Ch("/")>>,
   <<Scheme("ftp"), Name("example.com")>>,
   <<Num(<<8, 8, 8, 8>>)>>,
   <<Num(<<169, 254, 169, 254>>)>>,
   <<Scheme("https"), Num(<<127, 1>>), Ch("/")>>,
   <<Br6(Loopback6)>>,
   <<Br6(GoogleDns6), Port(8080)>>,
   <<Name("LocalHost")>>,
   <<Name("localhost.")>>,
   <<Name("user"), Ch(":"), Name("pass"), Ch("@"), Name("evil.com")>>,
   <<>>} \cup
  {<<Name("example.com"), Ch(c)>> : c \in {"#", "@", " ", "%"}}

Scanners == {"a2a_agent_card", "llms_txt", "health", "mcp"}

CheckStatuses == {"pass", "warn", "fail"}

MaxScannerFetches == 1

(* the addresses isPrivateOrReservedIP is called with: around every range  *)
(* boundary, octet by octet and part by part                               *)
ClassifyInputs ==
  {V4(a, b, cd[1], cd[2]) :
     a \in {0, 1, 8, 9, 10, 11, 99, 100, 101, 126, 127, 128, 151, 168, 169, 170, 171,
            172, 173, 191, 192, 193, 198, 203, 223, 224, 239, 240, 255},
     b \in {0, 1, 15, 16, 31, 32, 63, 64, 100, 127, 128, 167, 168, 169, 253, 254, 255},
     cd \in {<<0, 0>>, <<0, 1>>, <<1, 1>>, <<8, 8>>, <<169, 254>>, <<255, 254>>,
             <<255, 255>>}} \cup
  {V6(<<a, b, m, m, m, m, m, z>>) :
     a \in {0, 1, 100, 8193, 8194, 64511, 64512, 64513, 65023, 65024, 65151, 65152,
            65215, 65216, 65279, 65280, 65535},
     b \in {0, 3512, 18528, 65535},
     m \in {0, 65535},
     z \in {0, 1, 2, 34952, 65535}} \cup
  {V4(o[1], o[2], o[3], d) :
     o \in {<<8, 8, 8>>, <<151, 101, 1>>, <<192, 0, 0>>, <<192, 0, 1>>, <<192, 0, 2>>,
            <<192, 0, 3>>, <<192, 88, 98>>, <<192, 88, 99>>, <<192, 88, 100>>,
            <<198, 17, 255>>, <<198, 18, 0>>, <<198, 19, 255>>, <<198, 20, 0>>,
            <<198, 51, 99>>, <<198, 51, 100>>, <<198, 51, 101>>, <<203, 0, 112>>,
            <<203, 0, 113>>, <<203, 0, 114>>},
     d \in {0, 8, 140, 255}} \cup
  {Mapped(10, 0, 0, 1), Mapped(8, 8, 8, 8), Junk} \cup
  {Name("example"), Name("localhost"), Br6(<<0, 0, 0, 0, 0, 0, 0, 1>>),
   V4(256, 0, 0, 1), V4(8, 8, 8, 256), V6(<<8193, 18528, 18528, 0, 0, 0, 34952>>),
   V6(<<65536, 0, 0, 0, 0, 0, 0, 1>>), Mapped(8, 8, 8, 256), Opaque("x"), None}

(* one embedded IPv4 address in each of its spellings: bare, dotted        *)
(* ::ffff:a.b.c.d, and the hextet forms compressed, expanded, zero-padded  *)
SpellingInputs ==
  UNION {{V4(q[1], q[2], q[3], q[4]), Mapped(q[1], q[2], q[3], q[4])} \cup
         {Spelt(V6(<<0, 0, 0, 0, 0, 65535, q[1] * 256 + q[2], q[3] * 256 + q[4]>>), st) :
            st \in {"", "expanded", "padded"}} :
         q \in {<<127, 0, 0, 1>>, <<169, 254, 169, 254>>, <<192, 168, 1, 1>>,
                <<10, 0, 0, 1>>, <<8, 8, 8, 8>>, <<172, 15, 0, 1>>, <<172, 32, 0, 1>>,
                <<100, 64, 0, 1>>, <<100, 128, 0, 1>>, <<1, 1, 1, 1>>, <<224, 0, 0, 1>>,
                <<0, 0, 0, 0>>, <<255, 255, 255, 255>>}}

MaxChunks == 2

MaxChecks == 5

(* how many links of an llms.txt the model samples (the code: up to 5) *)
MaxLinks == 2

(* the validated targets a scanner is called with *)
(* (scanDomain passes on normalizeUrl(domain) once validateDomain accepted  *)
(* it): the normalized raw domains whose validation can end with valid     *)
ScannerDomains ==
  {<<Name("example.com")>>, <<Name("example.com"), Port(8080)>>,
   <<Num(<<8, 8, 8, 8>>)>>, <<Name("localhost.")>>}

(* what the lookup of a scanner's connection may settle with *)
ScannerLookups(hostname) ==
  {o \in LookupOutcomes(hostname) :
     \/ ~o.ok /\ o.code \in {"ENOTFOUND", "EAI_FAIL"}
     \/ o.ok /\ o.addresses \in {<<>>, <<hostname>>, <<V4(8, 8, 8, 8)>>,
                                  <<V4(8, 8, 8, 8), V4(169, 254, 169, 254)>>}}

(* the lookups a safeFetch call may see settle; none when it threw earlier *)
ScannerFetchLookups(head) ==
  IF head.at = "lookup" THEN ScannerLookups(head.hostname) ELSE {NoOutcome}

(* what a scanner's request may settle with *)
ScannerResponses ==
  {Response(st, Header(FALSE, <<>>)) : st \in {200, 404, 500}} \cup
  {FetchRejected("network_error")}

(* the links of an llms.txt: absolute, relative, of another scheme *)
ScannerLinks ==
  {<<Scheme("https"), Name("evil.com"), Ch("/")>>, <<Ch("/"), Name("next")>>,
   <<Scheme("ftp"), Name("example.com"), Ch("/")>>}

(* how many domains the command is given *)
MaxDomains == 7

(* what scanDomain settles with: it throws, or returns a report with its   *)
(* four checks                                                             *)
ScanOutcomes ==
  {<<>>, <<"pass", "pass", "pass", "pass">>, <<"pass", "warn", "pass", "warn">>,
   <<"pass", "fail", "pass", "warn">>}

(* the calls made concurrently, and what their awaits may settle with *)
ConcurrentCalls ==
  {Call("validateDomain", d, 0, <<>>) :
     d \in {<<Name("example.com")>>, <<Name("evil.com"), Port(8080)>>,
            <<Num(<<8, 8, 8, 8>>)>>}} \cup
  {Call("safeFetch", u, 1, <<>>) :
     u \in {<<Scheme("https"), Name("example.com"), Ch("/")>>,
            <<Scheme("http"), Name("EXAMPLE.COM"), Port(8080), Ch("/"), Name("mcp.json")>>}} \cup
  {Call("readResponseText",
        Readable(ContentLength(FALSE, FALSE, 0), TRUE, FALSE, c, "done", 0, 0, FALSE),
        0, <<>>) :
     c \in {<<131072, 131072>>, <<262144, 1>>}}

ConcurrentEvents(frame) ==
  CASE frame.st.at = "lookup" ->
         {Answer(<<V4(8, 8, 8, 8)>>), Answer(<<V4(8, 8, 8, 8), V4(169, 254, 169, 254)>>),
          LookupError("ENOTFOUND")}
    [] frame.st.at = "fetch" ->
         {Response(200, Header(FALSE, <<>>)),
          Response(302, Header(TRUE, <<Ch("/"), Name("next")>>)),
          Response(302, Header(TRUE, <<Scheme("https"), Name("evil.com"), Ch("/")>>)),
          FetchRejected("network_error")}
    [] frame.st.at \in {"reading", "text"} -> {NoOutcome}
    [] OTHER -> {}

ChunkSizes == {1, 131072, 262143, 262144, 262145}

RECURSIVE Sum(_)
Sum(q) == IF q = <<>> THEN 0 ELSE Head(q) + Sum(Tail(q))

(* the responses the readers are called with: with a body stream, and      *)
(* without one (a null body, or a test double with text() and json());     *)
(* empty content is never well-formed JSON                                 *)
Readables ==
  LET lengths == {ContentLength(FALSE, FALSE, 0), ContentLength(TRUE, TRUE, 0)} \cup
                 {ContentLength(TRUE, FALSE, n) : n \in {0, 262144, 262145}}
  IN  {r \in
         {Readable(cl, TRUE, TRUE, chunks, ends, 0, 0, wf) :
            cl \in lengths, chunks \in SeqsUpTo(ChunkSizes, MaxChunks),
            ends \in {"done", "error"}, wf \in BOOLEAN} \cup
         {Readable(cl, FALSE, hasJson, <<>>, "done", textLen, stringifiedLen, wf) :
            cl \in lengths, hasJson \in BOOLEAN, textLen \in {0, 1, 262144, 262145},
            stringifiedLen \in {2, 262145}, wf \in BOOLEAN} :
         r.wellFormed => Sum(r.chunks) + r.textLen > 0}

(***************************************************************************)
(* State.                                                                  *)
(***************************************************************************)
VARIABLES
  api,         \* the entry point this run exercises
  vPc,         \* validateDomain: "idle", "lookup", "returned" or "threw"
  vDomain,     \* its argument
  vHostname,   \* the hostname whose lookup it awaits
  vResult,     \* the result it returned
  vOutcome,    \* the lookup outcome it received
  vLookups,    \* the hostnames it has issued a lookup for, in order
  vCalls,      \* the number of calls of validateDomain
  fPc,         \* safeFetch: "idle", "lookup", "fetch", "returned" or "threw"
  fUrl,        \* currentUrl
  fMax,        \* maxRedirects
  fCount,      \* redirectCount
  fHostname,   \* the hostname of this iteration's lookup
  fOutcome,    \* the outcome of this iteration's lookup
  fError,      \* the error thrown
  fResponse,   \* the response returned
  fReceived,   \* the last response received from fetchWithTimeout
  fLookups,    \* the number of lookups issued
  fRequests,   \* the number of HTTP requests issued
  fRequestUrl, \* the URL of the last HTTP request
  fCancelled,  \* the number of response bodies cancelled
  fTimer,      \* the timer of fetchWithTimeout: "unset", "armed", "expired", "cleared"
  fRedirect,   \* the redirect option of the last request
  fAborts,     \* the number of calls of controller.abort()
  sPc,         \* scanDomain: "idle", "validating", "scanning", "returned", "threw"
  sRaw,        \* its argument
  sNormalized, \* normalizeUrl of its argument
  sError,      \* the error it threw
  sScanner,    \* per scanner: "notstarted", "running", or the status it settled with
  sFetches,    \* per scanner: the number of fetches it has started
  sTls,        \* the number of TLS connections opened
  sScore,      \* the score of the report
  rFn,         \* the reader called: "text" (readResponseText) or "json"
  rResponse,   \* the response it was called with
  rd,          \* where the reader stands
  cPc,         \* isPrivateOrReservedIP: "idle" or "returned"
  cIp,         \* its argument
  cResult,     \* what it returned
  cPrev,       \* the call before it: <<argument, result>>, or <<>>
  kFrames,     \* concurrent calls: the locals of every invocation
  kOwn,        \* what each call was given: its function, arguments and events
  yPc,         \* calculateScore: "idle" or "returned"
  yChecks,     \* the statuses of the checks it was called with
  yScore,      \* what it returned
  lPc,         \* the command: "idle", "scanning" or "exited"
  lN,          \* how many domains it was given
  lIndex,      \* i of the batch loop
  lInFlight,   \* the positions whose scanDomain call has not settled
  lBatch,      \* batchResults: the report of each position of the batch
  lReports,    \* reports
  lHasFailures,
  lExit,       \* the exit code, -1 while running
  lPeak,       \* the most scanDomain calls ever in flight
  lThrew,      \* the positions whose scanDomain call threw
  nSt          \* a scanner call: its state between two awaits

vvars == <<vPc, vDomain, vHostname, vResult, vOutcome, vLookups, vCalls>>

fvars == <<fPc, fUrl, fMax, fCount, fHostname, fOutcome, fError, fResponse, fReceived,
           fLookups, fRequests, fRequestUrl, fCancelled, fTimer, fRedirect, fAborts>>

svars == <<sPc, sRaw, sNormalized, sError, sScanner, sFetches, sTls, sScore>>

rvars == <<rFn, rResponse, rd>>

cvars == <<cPc, cIp, cResult, cPrev>>

kvars == <<kFrames, kOwn>>

yvars == <<yPc, yChecks, yScore>>

lvars == <<lPc, lN, lIndex, lInFlight, lBatch, lReports, lHasFailures, lExit, lPeak,
           lThrew>>

xvars == <<kvars, yvars, lvars, nSt>>

vars == <<api, vvars, fvars, svars, rvars, cvars, xvars>>

InitValidate ==
  /\ vPc = "idle"
  /\ vDomain = <<>>
  /\ vHostname = None
  /\ vResult = NoResult
  /\ vOutcome = NoOutcome
  /\ vLookups = <<>>
  /\ vCalls = 0

InitFetch ==
  /\ fPc = "idle"
  /\ fUrl = <<>>
  /\ fMax = 0
  /\ fCount = 0
  /\ fHostname = None
  /\ fOutcome = NoOutcome
  /\ fError = NoError
  /\ fResponse = NoResponse
  /\ fReceived = NoResponse
  /\ fLookups = 0
  /\ fRequests = 0
  /\ fRequestUrl = <<>>
  /\ fCancelled = 0
  /\ fTimer = "unset"
  /\ fRedirect = "none"
  /\ fAborts = 0

InitScan ==
  /\ sPc = "idle"
  /\ sRaw = <<>>
  /\ sNormalized = <<>>
  /\ sError = ""
  /\ sScanner = [s \in Scanners |-> "notstarted"]
  /\ sFetches = [s \in Scanners |-> 0]
  /\ sTls = 0
  /\ sScore = 0 - 1

InitRead ==
  /\ rFn = "none"
  /\ rResponse = Readable(ContentLength(FALSE, FALSE, 0), FALSE, FALSE, <<>>, "done", 0, 0, FALSE)
  /\ rd = ReadIdle

InitClassify ==
  /\ cPc = "idle"
  /\ cIp = None
  /\ cResult = FALSE
  /\ cPrev = <<>>

InitConcurrent ==
  /\ kFrames = [f \in Calls |-> NoFrame]
  /\ kOwn = [i \in Calls |-> NoCall]

InitScore ==
  /\ yPc = "idle"
  /\ yChecks = <<>>
  /\ yScore = 0

InitCli ==
  /\ lPc = "idle"
  /\ lN = 0
  /\ lIndex = 0
  /\ lInFlight = {}
  /\ lBatch = <<>>
  /\ lReports = <<>>
  /\ lHasFailures = FALSE
  /\ lExit = 0 - 1
  /\ lPeak = 0
  /\ lThrew = {}

InitScanner == nSt = ScannerIdle

Apis ==
  {"validateDomain", "safeFetch", "scanDomain", "readResponse", "isPrivateOrReservedIP",
   "concurrent", "calculateScore", "cli", "scanner"}

Init ==
  /\ api \in Apis
  /\ InitValidate /\ InitFetch /\ InitScan /\ InitRead /\ InitClassify
  /\ InitConcurrent /\ InitScore /\ InitCli /\ InitScanner

(* validateDomain(domain), run to its first suspension point or its return *)
validateDomainBegin(domain) ==
  LET r == validateDomainSync(domain) IN
    /\ vPc = "idle"
    /\ vDomain' = domain
    /\ vCalls' = vCalls + 1
    /\ vPc' = r.at
    /\ vResult' = r.result
    /\ vHostname' = r.hostname
    /\ vLookups' = IF r.at = "lookup" THEN Append(vLookups, r.hostname) ELSE vLookups
    /\ UNCHANGED vOutcome

(* the awaited lookup settles and validateDomain runs to its return *)
ValidateLookupSettles ==
  /\ vPc = "lookup"
  /\ \E outcome \in LookupOutcomes(vHostname) :
       LET r == validateDomainResume(vHostname, outcome) IN
         /\ vOutcome' = outcome
         /\ vPc' = r.at
         /\ vResult' = r.result
  /\ UNCHANGED <<api, vDomain, vHostname, vLookups, vCalls, fvars, svars, rvars, cvars, xvars>>

ValidateCall ==
  /\ \E domain \in Domains : validateDomainBegin(domain)
  /\ UNCHANGED <<api, fvars, svars, rvars, cvars, xvars>>

NextValidate == ValidateCall \/ ValidateLookupSettles

InitValidateRun == Init /\ api = "validateDomain"

SpecValidate == InitValidateRun /\ [][NextValidate]_vars

(* the state a stretch of safeFetch leaves behind *)
Reach(st) ==
  /\ fPc' = st.at
  /\ fUrl' = st.url
  /\ fCount' = st.count
  /\ fHostname' = st.hostname
  /\ fError' = st.error
  /\ fResponse' = st.response
  /\ fCancelled' = st.cancelled
  /\ fLookups' = IF st.at = "lookup" THEN fLookups + 1 ELSE fLookups

(* safeFetch(url, timeoutMs, maxRedirects), run to its first lookup *)
SafeFetchCall ==
  /\ fPc = "idle"
  /\ \E url \in StartUrls, maxRedirects \in (0 - 1)..MaxRedirectsBound :
       /\ fMax' = maxRedirects
       /\ Reach(safeFetchLoopHead(url, 0, maxRedirects, 0))
  /\ UNCHANGED <<api, fOutcome, fReceived, fRequests, fRequestUrl, fTimer, fRedirect,
                 fAborts, vvars, svars, rvars, cvars, xvars>>

(* the lookup settles; when every address is public the request is issued *)
SafeFetchLookupSettles ==
  /\ fPc = "lookup"
  /\ \E outcome \in LookupOutcomes(fHostname) :
       LET st == safeFetchAfterLookup(fUrl, fCount, fHostname, outcome, fCancelled) IN
         /\ fOutcome' = outcome
         /\ Reach(st)
         /\ fRequests' = IF st.at = "fetch" THEN fRequests + 1 ELSE fRequests
         /\ fRequestUrl' = IF st.at = "fetch" THEN fUrl ELSE fRequestUrl
         /\ fTimer' = IF st.at = "fetch" THEN fetchWithTimeoutStart.timer ELSE fTimer
         /\ fRedirect' = IF st.at = "fetch" THEN fetchWithTimeoutStart.redirect
                         ELSE fRedirect
  /\ UNCHANGED <<api, fMax, fReceived, fAborts, vvars, svars, rvars, cvars, xvars>>

(* the request settles: safeFetch returns, throws, or follows the redirect *)
(* to the lookup of the next iteration                                     *)
SafeFetchResponseSettles ==
  /\ fPc = "fetch"
  /\ \E response \in FetchOutcomes(Responses, fTimer = "expired") :
       LET st == safeFetchAfterResponse(fUrl, fCount, fMax, fHostname, response,
                                        fCancelled) IN
         /\ fReceived' = response
         /\ Reach(st)
         /\ fOutcome' = IF st.at = "lookup" THEN NoOutcome ELSE fOutcome
         /\ fTimer' = fetchWithTimeoutSettled(response, fTimer)
  /\ UNCHANGED <<api, fMax, fRequests, fRequestUrl, fRedirect, fAborts, vvars, svars, rvars, cvars, xvars>>

(* the timer of fetchWithTimeout fires: controller.abort() *)
SafeFetchTimerFires ==
  /\ fTimer = "armed"
  /\ fTimer' = "expired"
  /\ fAborts' = fAborts + 1
  /\ UNCHANGED <<api, fPc, fUrl, fMax, fCount, fHostname, fOutcome, fError, fResponse,
                 fReceived, fLookups, fRequests, fRequestUrl, fCancelled, fRedirect,
                 vvars, svars, rvars, cvars, xvars>>

NextFetch ==
  \/ SafeFetchCall
  \/ SafeFetchLookupSettles
  \/ SafeFetchResponseSettles
  \/ SafeFetchTimerFires

InitFetchRun == Init /\ api = "safeFetch"

SpecFetch == InitFetchRun /\ [][NextFetch]_vars

(***************************************************************************)
(* scanner.ts: scanDomain                                                  *)
(***************************************************************************)
(* scanDomain(domain): normalizeUrl, then validateDomain(normalized) up to *)
(* its first suspension point                                              *)
ScanDomainCall ==
  /\ sPc = "idle"
  /\ \E raw \in RawDomains :
       /\ sRaw' = raw
       /\ sNormalized' = normalizeUrl(raw)
       /\ validateDomainBegin(normalizeUrl(raw))
  /\ sPc' = "validating"
  /\ UNCHANGED <<api, sError, sScanner, sFetches, sTls, sScore, fvars, rvars, cvars, xvars>>

(* the four scanner calls of Promise.all *)
StartScanners == [s \in Scanners |-> "running"]

(* mutant: the scanners are started whatever validateDomain returned *)
ScanDomainValidated_Unchecked ==
  /\ sPc = "validating"
  /\ vPc \in {"returned", "threw"}
  /\ sPc' = "scanning"
  /\ sScanner' = StartScanners
  /\ UNCHANGED <<api, sRaw, sNormalized, sError, sFetches, sTls, sScore, vvars, fvars, rvars, cvars, xvars>>

(* validateDomain has settled: throw on an invalid result, else start the  *)
(* four scanners                                                           *)
ScanDomainValidated ==
  /\ sPc = "validating"
  /\ vPc \in {"returned", "threw"}
  /\ IF vPc = "threw"
     THEN sPc' = "threw" /\ sError' = "validateDomain threw" /\ UNCHANGED sScanner
     ELSE IF ~vResult.valid
     THEN sPc' = "threw" /\ sError' = "Invalid domain" /\ UNCHANGED sScanner
     ELSE sPc' = "scanning" /\ sScanner' = StartScanners /\ UNCHANGED sError
  /\ UNCHANGED <<api, sRaw, sNormalized, sFetches, sTls, sScore, vvars, fvars, rvars, cvars, xvars>>

(* a running scanner starts a fetch of a URL built from the normalized     *)
(* domain                                                                  *)
ScannerFetch(s) ==
  /\ sPc = "scanning"
  /\ sScanner[s] = "running"
  /\ sFetches[s] < MaxScannerFetches
  /\ sFetches' = [sFetches EXCEPT ![s] = @ + 1]
  /\ UNCHANGED <<api, sPc, sRaw, sNormalized, sError, sScanner, sTls, sScore, vvars, fvars, rvars, cvars, xvars>>

(* scanHealth, after its fetch, opens the TLS connection of checkTLS *)
ScannerTls ==
  /\ sPc = "scanning"
  /\ sScanner["health"] = "running"
  /\ sFetches["health"] >= 1
  /\ sTls = 0
  /\ sTls' = 1
  /\ UNCHANGED <<api, sPc, sRaw, sNormalized, sError, sScanner, sFetches, sScore, vvars, fvars, rvars, cvars, xvars>>

(* a scanner returns its CheckResult; scanMCP has no fail result *)
ScannerSettles(s) ==
  /\ sPc = "scanning"
  /\ sScanner[s] = "running"
  /\ sFetches[s] >= 1
  /\ \E status \in CheckStatuses :
       /\ s = "mcp" => status # "fail"
       /\ sScanner' = [sScanner EXCEPT ![s] = status]
  /\ UNCHANGED <<api, sPc, sRaw, sNormalized, sError, sFetches, sTls, sScore, vvars, fvars, rvars, cvars, xvars>>

(* Promise.all resolves and scanDomain returns the report *)
ScanDomainReturns ==
  /\ sPc = "scanning"
  /\ \A s \in Scanners : sScanner[s] \in CheckStatuses
  /\ sPc' = "returned"
  /\ sScore' = calculateScore(sScanner)
  /\ UNCHANGED <<api, sRaw, sNormalized, sError, sScanner, sFetches, sTls, vvars, fvars, rvars, cvars, xvars>>

NextScan ==
  \/ ScanDomainCall
  \/ ValidateLookupSettles
  \/ ScanDomainValidated
  \/ \E s \in Scanners : ScannerFetch(s)
  \/ ScannerTls
  \/ \E s \in Scanners : ScannerSettles(s)
  \/ ScanDomainReturns

InitScanRun == Init /\ api = "scanDomain"

SpecScan == InitScanRun /\ [][NextScan]_vars

(***************************************************************************)
(* utils.ts: the readers as processes                                      *)
(***************************************************************************)
(* readResponseText(response) or readResponseJson(response), run to its    *)
(* first suspension point                                                  *)
ReadCall ==
  /\ rd.pc = "idle"
  /\ \E fn \in {"text", "json"}, response \in Readables :
       /\ rFn' = fn
       /\ rResponse' = response
       /\ rd' = IF fn = "json" THEN readResponseJsonBegin(response)
                ELSE readResponseTextBegin(response)
  /\ UNCHANGED <<api, vvars, fvars, svars, cvars, xvars>>

ReadChunkSettles ==
  /\ rd.pc = "reading"
  /\ rd' = readSettles(rFn, rResponse, rd)
  /\ UNCHANGED <<api, rFn, rResponse, vvars, fvars, svars, cvars, xvars>>

ReadTextSettles ==
  /\ rd.pc = "text"
  /\ rd' = textSettles(rFn, rResponse, rd)
  /\ UNCHANGED <<api, rFn, rResponse, vvars, fvars, svars, cvars, xvars>>

ReadJsonSettles ==
  /\ rd.pc = "json"
  /\ rd' = jsonSettles(rResponse, rd)
  /\ UNCHANGED <<api, rFn, rResponse, vvars, fvars, svars, cvars, xvars>>

NextRead == ReadCall \/ ReadChunkSettles \/ ReadTextSettles \/ ReadJsonSettles

InitReadRun == Init /\ api = "readResponse"

SpecRead == InitReadRun /\ [][NextRead]_vars

(***************************************************************************)
(* security.ts: isPrivateOrReservedIP as a call                            *)
(***************************************************************************)
(* a first call with any address, or a second call with another spelling   *)
(* after a first one                                                       *)
ClassifyCall ==
  /\ \E ip \in ClassifyInputs \cup SpellingInputs :
       /\ \/ cPc = "idle" /\ cPrev' = <<>>
          \/ /\ cPc = "returned" /\ cPrev = <<>>
             /\ cIp \in SpellingInputs /\ ip \in SpellingInputs
             /\ cPrev' = <<cIp, cResult>>
       /\ cIp' = ip
       /\ cResult' = isPrivateOrReservedIP(ip)
  /\ cPc' = "returned"
  /\ UNCHANGED <<api, vvars, fvars, svars, rvars, xvars>>

NextClassify == ClassifyCall

InitClassifyRun == Init /\ api = "isPrivateOrReservedIP"

SpecClassify == InitClassifyRun /\ [][NextClassify]_vars

(***************************************************************************)
(* Two invocations interleaved at their suspension points                  *)
(***************************************************************************)
ConcurrentCallStarts ==
  /\ \E i \in Calls, c \in ConcurrentCalls :
       /\ kOwn[i] = NoCall
       /\ kOwn' = [kOwn EXCEPT ![i] = c]
       /\ kFrames' = [kFrames EXCEPT ![FrameOf(i)] = CallBegin(c.fn, c.arg, c.max)]
  /\ UNCHANGED <<api, vvars, fvars, svars, rvars, cvars, yvars, lvars, nSt>>

ConcurrentCallSettles ==
  /\ \E i \in Calls :
       /\ kOwn[i] # NoCall
       /\ \E ev \in ConcurrentEvents(kFrames[FrameOf(i)]) :
            /\ kOwn' = [kOwn EXCEPT ![i].events = Append(@, ev)]
            /\ kFrames' = [kFrames EXCEPT
                             ![FrameOf(i)] = CallAdvance(kFrames[FrameOf(i)], ev)]
  /\ UNCHANGED <<api, vvars, fvars, svars, rvars, cvars, yvars, lvars, nSt>>

NextConcurrent == ConcurrentCallStarts \/ ConcurrentCallSettles

InitConcurrentRun == Init /\ api = "concurrent"

SpecConcurrent == InitConcurrentRun /\ [][NextConcurrent]_vars

(***************************************************************************)
(* utils.ts: calculateScore as a call, on one to MaxChecks checks          *)
(***************************************************************************)
ScoreCall ==
  /\ yPc = "idle"
  /\ \E checks \in SeqsUpTo(CheckStatuses, MaxChecks) \ {<<>>} :
       /\ yChecks' = checks
       /\ yScore' = calculateScore(checks)
  /\ yPc' = "returned"
  /\ UNCHANGED <<api, vvars, fvars, svars, rvars, cvars, kvars, lvars, nSt>>

NextScore == ScoreCall

InitScoreRun == Init /\ api = "calculateScore"

SpecScore == InitScoreRun /\ [][NextScore]_vars

(***************************************************************************)
(* cli.ts: the command scans its domains batch by batch and exits          *)
(***************************************************************************)
(* the command is run: with no domain it exits 1, else the scans of the    *)
(* first batch are started                                                 *)
CliCalled ==
  /\ lPc = "idle"
  /\ \E n \in 0..MaxDomains :
       /\ lN' = n
       /\ IF n = 0
          THEN /\ lPc' = "exited"
               /\ lExit' = 1
               /\ UNCHANGED <<lInFlight, lBatch, lPeak>>
          ELSE /\ lPc' = "scanning"
               /\ lInFlight' = BatchOf(0, n)
               /\ lBatch' = [d \in BatchOf(0, n) |-> Pending]
               /\ lPeak' = Cardinality(BatchOf(0, n))
               /\ UNCHANGED lExit
  /\ UNCHANGED <<api, lIndex, lReports, lHasFailures, lThrew, vvars, fvars, svars, rvars, cvars,
                 kvars, yvars, nSt>>

(* one scanDomain call settles; when it is the last of its batch the       *)
(* batch's reports are pushed in order, failures are looked for, and the   *)
(* next batch is started or the command exits                              *)
CliScanSettles ==
  /\ lPc = "scanning"
  /\ \E d \in lInFlight, outcome \in ScanOutcomes :
       LET report == IF outcome = <<>> THEN FailedReport(d)
                     ELSE Report(d, calculateScore(outcome), outcome)
           batch == [lBatch EXCEPT ![d] = report]
           reports == lReports \o [k \in 1..Cardinality(DOMAIN batch) |-> batch[lIndex + k]]
           failures == lHasFailures \/ \E k \in DOMAIN batch : HasFailure(batch[k])
           i == lIndex + CONCURRENCY
       IN  /\ lThrew' = IF outcome = <<>> THEN lThrew \cup {d} ELSE lThrew
           /\ IF lInFlight # {d}
              THEN /\ lInFlight' = lInFlight \ {d}
                   /\ lBatch' = batch
                   /\ UNCHANGED <<lPc, lIndex, lReports, lHasFailures, lExit, lPeak>>
              ELSE /\ lReports' = reports
                   /\ lHasFailures' = failures
                   /\ lIndex' = i
                   /\ IF i < lN
                      THEN /\ lInFlight' = BatchOf(i, lN)
                           /\ lBatch' = [e \in BatchOf(i, lN) |-> Pending]
                           /\ lPeak' = IF Cardinality(BatchOf(i, lN)) > lPeak
                                       THEN Cardinality(BatchOf(i, lN)) ELSE lPeak
                           /\ UNCHANGED <<lPc, lExit>>
                      ELSE /\ lInFlight' = {}
                           /\ lBatch' = <<>>
                           /\ lPc' = "exited"
                           /\ lExit' = ExitCode(failures)
                           /\ UNCHANGED lPeak
  /\ UNCHANGED <<api, lN, vvars, fvars, svars, rvars, cvars, kvars, yvars, nSt>>

NextCli == CliCalled \/ CliScanSettles

InitCliRun == Init /\ api = "cli"

SpecCli == InitCliRun /\ [][NextCli]_vars

(***************************************************************************)
(* scanners/: one scanner call, await by await                             *)
(***************************************************************************)
(* the scanner is called with the validated target and issues its first    *)
(* safeFetch                                                               *)
ScannerCalled ==
  /\ nSt.pc = "idle"
  /\ \E scanner \in Scanners, domain \in ScannerDomains :
       nSt' = ScannerBegin(scanner, domain)
  /\ UNCHANGED <<api, vvars, fvars, svars, rvars, cvars, kvars, yvars, lvars>>

(* the awaited safeFetch of the current path settles *)
ScannerFetchSettles ==
  /\ nSt.pc = "fetch"
  /\ \E path \in {ScannerPaths(nSt.scanner)[nSt.path]} :
     \E head \in {ScannerSafeFetchHead(buildUrl(nSt.domain, path))} :
     \E outcome \in ScannerFetchLookups(head), response \in ScannerResponses,
        ctype \in {"json", "html", "other"} :
     \E st1 \in {ScannerSafeFetchLookup(head, outcome)} :
     \E st2 \in {ScannerSafeFetchSettle(st1, response)} :
     \E fetched \in {ScannerFetched(head, st1, st2)} :
     \E n1 \in {[nSt EXCEPT
                   !.fetches = Append(@, path),
                   !.conns = IF fetched.looked
                             THEN Append(@, Conn("safeFetch", outcome, fetched.opened))
                             ELSE @]} :
       nSt' = ScannerAfterFetch(n1, fetched, ctype)
  /\ UNCHANGED <<api, vvars, fvars, svars, rvars, cvars, kvars, yvars, lvars>>

(* the awaited readResponseJson / readResponseText settles *)
ScannerReadSettles ==
  /\ nSt.pc = "read"
  /\ \E read \in {"valid", "invalid", "exceeded", "invalid_json"}, links \in 0..MaxLinks :
       nSt' = ScannerAfterRead(nSt, read, links)
  /\ UNCHANGED <<api, vvars, fvars, svars, rvars, cvars, kvars, yvars, lvars>>

(* scanLlmsTxt: one of the sampled link checks settles; after the last one *)
(* the result is pass when every link was reachable, else warn             *)
ScannerLinkSettles ==
  /\ nSt.pc = "links"
  /\ \E link \in ScannerLinks, response \in ScannerResponses :
     \E base \in {buildUrl(nSt.domain, ScannerPaths(nSt.scanner)[nSt.path])} :
     \E absolute \in {checkLinkTarget(link, base)} :
     \E requested \in {checkLinkRequests(absolute)} :
     \E head \in {ScannerSafeFetchHead(checkLinkUrl(absolute))} :
     \E outcome \in IF requested THEN ScannerFetchLookups(head) ELSE {NoOutcome} :
     \E st1 \in {ScannerSafeFetchLookup(head, outcome)} :
     \E st2 \in {ScannerSafeFetchSettle(st1, response)} :
     \E fetched \in {ScannerFetched(head, st1, st2)} :
     \E n1 \in {[nSt EXCEPT
                   !.conns = IF requested /\ fetched.looked
                             THEN Append(@, Conn("safeFetch", outcome, fetched.opened))
                             ELSE @,
                   !.broken = @ \/ ~checkLinkReachable(requested, fetched),
                   !.left = @ - 1]} :
       nSt' = IF n1.left > 0 THEN n1
              ELSE ScannerReturns(n1, IF n1.broken THEN "warn" ELSE "pass", FALSE)
  /\ UNCHANGED <<api, vvars, fvars, svars, rvars, cvars, kvars, yvars, lvars>>

(* scanHealth: the awaited checkTLS(hostname, port) settles and the result *)
(* is put together                                                         *)
ScannerTlsSettles ==
  /\ nSt.pc = "tls"
  /\ LET url == buildUrl(nSt.domain, ScannerPaths(nSt.scanner)[nSt.path]) IN
       \E outcome \in ScannerLookups(ParseUrl(url, NoBase).hostname),
          tls \in {"valid", "expiring", "expired", "nocert", "error", "timeout"},
          slow \in BOOLEAN :
         \E tlsInfo \in {checkTLS(outcome, tls)} :
           \E n1 \in {[nSt EXCEPT
                         !.conns = Append(@, Conn("checkTLS", outcome, tlsInfo.connects))]} :
             nSt' = ScannerReturns(n1, scanHealthStatus(nSt.ok, tlsInfo, slow), FALSE)
  /\ UNCHANGED <<api, vvars, fvars, svars, rvars, cvars, kvars, yvars, lvars>>

NextScanner ==
  \/ ScannerCalled
  \/ ScannerFetchSettles
  \/ ScannerReadSettles
  \/ ScannerLinkSettles
  \/ ScannerTlsSettles

InitScannerRun == Init /\ api = "scanner"

SpecScanner == InitScannerRun /\ [][NextScanner]_vars

(* the two guards side by side: a run of validateDomain or of safeFetch *)
NextGuards ==
  \/ api = "validateDomain" /\ NextValidate
  \/ api = "safeFetch" /\ NextFetch

InitGuardsRun == Init /\ api \in {"validateDomain", "safeFetch"}

SpecGuards == InitGuardsRun /\ [][NextGuards]_vars

(* one run exercises one entry point *)
Next ==
  \/ api = "validateDomain" /\ NextValidate
  \/ api = "safeFetch" /\ NextFetch
  \/ api = "scanDomain" /\ NextScan
  \/ api = "readResponse" /\ NextRead
  \/ api = "isPrivateOrReservedIP" /\ NextClassify
  \/ api = "concurrent" /\ NextConcurrent
  \/ api = "calculateScore" /\ NextScore
  \/ api = "cli" /\ NextCli
  \/ api = "scanner" /\ NextScanner

Spec == Init /\ [][Next]_vars
(***************************************************************************)
(* Properties.                                                             *)
(***************************************************************************)
IsPublicAnswer(outcome) ==
  /\ outcome.ok
  /\ \A i \in 1..Len(outcome.addresses) : ~isPrivateOrReservedIP(outcome.addresses[i])

HasPrivateAddress(outcome) ==
  /\ outcome.ok
  /\ \E i \in 1..Len(outcome.addresses) : isPrivateOrReservedIP(outcome.addresses[i])

(* C1: every HTTP request of safeFetch follows, in its iteration, a lookup *)
(* of the request's hostname whose addresses were all public; an answer    *)
(* with a private or reserved address makes safeFetch throw an error       *)
(* naming such an address of that answer, with no request issued for the   *)
(* hop and no response returned.                                           *)
C1_RequestOnlyAfterPublicLookup ==
  /\ fRequests <= fLookups
  /\ fPc \in {"fetch", "returned"} =>
       /\ fRequests = fLookups
       /\ fRequestUrl = fUrl
       /\ ParseUrl(fRequestUrl, NoBase).hostname = fHostname
       /\ IsPublicAnswer(fOutcome)
  /\ HasPrivateAddress(fOutcome) =>
       /\ fPc = "threw"
       /\ fError.kind = "private_ip"
       /\ isPrivateOrReservedIP(fError.addr)
       /\ \E i \in 1..Len(fOutcome.addresses) : fOutcome.addresses[i] = fError.addr
       /\ fRequests = fLookups - 1
       /\ fResponse = NoResponse

(* a redirect led to the metadata address 169.254.169.254 and was refused *)
C1_Witness ==
  /\ fPc = "threw"
  /\ fError.kind = "private_ip"
  /\ fError.addr = V4(169, 254, 169, 254)
  /\ fCount = 1
  /\ fRequests = 1
  /\ fLookups = 2
  /\ fReceived.status = 302

C9_AsStated ==
  LET parsedUrl == ParseUrl(fUrl, NoBase) IN
    /\ ( /\ fPc # "idle"
         /\ parsedUrl.ok
         /\ parsedUrl.scheme \notin {"http", "https"} ) =>
         /\ fPc = "threw"
         /\ fError.kind = "unsafe_scheme"
         /\ fLookups = fCount
         /\ fRequests = fCount
         /\ fResponse = NoResponse
    /\ fPc \in {"lookup", "fetch", "returned"} =>
         parsedUrl.ok /\ parsedUrl.scheme \in {"http", "https"}

(* C9: for maxRedirects >= 0, at every hop a URL whose scheme is neither   *)
(* http nor https makes safeFetch throw "Unsafe URL scheme" with no lookup *)
(* and no request made for that hop; with a negative maxRedirects the loop *)
(* body never runs and the call throws "Unexpected redirect loop", again   *)
(* with no lookup and no request.                                          *)
C9_UnsafeSchemeThrowsFirst ==
  LET parsedUrl == ParseUrl(fUrl, NoBase) IN
    /\ ( /\ fPc # "idle"
         /\ fMax >= 0
         /\ parsedUrl.ok
         /\ parsedUrl.scheme \notin {"http", "https"} ) =>
         /\ fPc = "threw"
         /\ fError.kind = "unsafe_scheme"
         /\ fLookups = fCount
         /\ fRequests = fCount
         /\ fResponse = NoResponse
    /\ ( /\ fPc # "idle"
         /\ fMax < 0 ) =>
         /\ fPc = "threw"
         /\ fError.kind = "unexpected_loop"
         /\ fLookups = 0
         /\ fRequests = 0
    /\ fPc \in {"lookup", "fetch", "returned"} =>
         parsedUrl.ok /\ parsedUrl.scheme \in {"http", "https"}

(* a redirect to an ftp URL is refused before its host is looked up *)
C9_Witness ==
  /\ fPc = "threw"
  /\ fError.kind = "unsafe_scheme"
  /\ fError.code = "ftp:"
  /\ fCount = 1
  /\ fLookups = 1
  /\ fRequests = 1

(* C10: a response with a status in 300..399 and no Location header makes  *)
(* safeFetch throw "Redirect response missing Location header", with no    *)
(* further lookup or request and no response returned, at any redirect     *)
(* count.                                                                  *)
C10_MissingLocationThrows ==
  ( /\ fPc # "fetch"
    /\ fReceived.kind = "response"
    /\ fReceived.status \in 300..399
    /\ ~fReceived.location.present ) =>
    /\ fPc = "threw"
    /\ fError.kind = "missing_location"
    /\ fResponse = NoResponse
    /\ fRequests = fCount + 1
    /\ fLookups = fCount + 1

(* the last hop the limit allows answers with a redirect without Location *)
C10_Witness ==
  /\ fPc = "threw"
  /\ fError.kind = "missing_location"
  /\ fMax >= 1
  /\ fCount = fMax
  /\ ~fReceived.location.present
(* C3: for a hostname that is a name other than localhost, validateDomain  *)
(* returns valid only if the lookup succeeded with every address public; a *)
(* private or reserved address at any position of the answer makes the     *)
(* result invalid with a reason naming a private address of the answer,    *)
(* the very one when the answer holds a single such address.               *)
C3_ValidOnlyIfAllPublic ==
  (vPc = "returned" /\ vHostname.k = "name") =>
    /\ vHostname.s # "localhost"
    /\ vResult.valid => IsPublicAnswer(vOutcome)
    /\ HasPrivateAddress(vOutcome) =>
         /\ ~vResult.valid
         /\ vResult.reason.kind = "resolves_private"
         /\ isPrivateOrReservedIP(vResult.reason.addr)
         /\ \E i \in 1..Len(vOutcome.addresses) :
              vOutcome.addresses[i] = vResult.reason.addr
         /\ \A i \in 1..Len(vOutcome.addresses) :
              ( /\ isPrivateOrReservedIP(vOutcome.addresses[i])
                /\ \A j \in (1..Len(vOutcome.addresses)) \ {i} :
                     ~isPrivateOrReservedIP(vOutcome.addresses[j]) ) =>
                vResult.reason.addr = vOutcome.addresses[i]

(* a private address behind a public one in the answer is found *)
C3_Witness ==
  /\ vPc = "returned"
  /\ vHostname = Name("example.com")
  /\ vOutcome = Answer(<<V4(8, 8, 8, 8), V4(169, 254, 169, 254)>>)
  /\ ~vResult.valid
  /\ vResult.reason.addr = V4(169, 254, 169, 254)

PassesSyntaxGates(domain) ==
  /\ \A i \in 1..Len(Chars(domain)) :
       ~( /\ Chars(domain)[i].k = "ch"
          /\ Chars(domain)[i].s \in {"#", "?", "/", "bslash", " ", "tab", "lf", "cr",
                                     "ctl", "del", "@"} )
  /\ ParseHttpsUrl(domain).ok

(* the address a literal hostname spells *)
LiteralAddress(hostname) ==
  IF hostname.k = "br6" THEN V6(hostname.n) ELSE hostname

(* C4: when the hostname of the input is a literal IPv4 or IPv6 address,   *)
(* validateDomain classifies it directly, makes no DNS lookup, and returns *)
(* valid exactly when the address is public.                               *)
C4_LiteralClassifiedDirectly ==
  LET hostname == ParseHttpsUrl(vDomain).hostname IN
    ( /\ vPc # "idle"
      /\ PassesSyntaxGates(vDomain)
      /\ hostname.k \in {"ipv4", "br6"} ) =>
      /\ vPc = "returned"
      /\ vLookups = <<>>
      /\ vResult.valid <=> ~isPrivateOrReservedIP(LiteralAddress(hostname))

(* C5: a failed DNS lookup, whatever its error, is never taken as safe:    *)
(* validateDomain returns an invalid result with a reason, and safeFetch   *)
(* throws without issuing the request of that hop.                         *)
C5_LookupFailureFailsClosed ==
  /\ (vOutcome # NoOutcome /\ ~vOutcome.ok) =>
       /\ vPc = "returned"
       /\ ~vResult.valid
       /\ vResult.reason.kind = "dns"
       /\ vResult.reason.ch = vOutcome.code
  /\ (fOutcome # NoOutcome /\ ~fOutcome.ok) =>
       /\ fPc = "threw"
       /\ fError.kind \in {"dns_failed", "dns_rethrown"}
       /\ fRequests = fLookups - 1
       /\ fRequests = fCount
       /\ fResponse = NoResponse

(* the lookup of a redirect target fails with an error that is neither     *)
(* not-found nor a temporary failure                                       *)
C5_Witness ==
  /\ fPc = "threw"
  /\ fOutcome = LookupError("EAI_FAIL")
  /\ fCount = 1
  /\ fRequests = 1
  /\ fLookups = 2

ScannerActivity ==
  \/ \E s \in Scanners : sScanner[s] # "notstarted" \/ sFetches[s] > 0
  \/ sTls > 0

(* C6: scanDomain calls validateDomain exactly once, on the normalized     *)
(* target, before any scanner runs; on an invalid result it throws         *)
(* "Invalid domain" with no scanner started, no fetch and no TLS           *)
(* connection.                                                             *)
C6_ValidatedOnceBeforeScanners ==
  /\ vCalls <= 1
  /\ sPc # "idle" =>
       /\ vCalls = 1
       /\ vDomain = normalizeUrl(sRaw)
  /\ ScannerActivity => (vPc = "returned" /\ vResult.valid)
  /\ (vPc = "returned" /\ ~vResult.valid /\ sPc # "validating") =>
       /\ sPc = "threw"
       /\ sError = "Invalid domain"
       /\ ~ScannerActivity

(* a name that resolves to the metadata address stops the scan *)
C6_Witness ==
  /\ sPc = "threw"
  /\ sError = "Invalid domain"
  /\ vResult.reason.kind = "resolves_private"
  /\ vResult.reason.addr = V4(169, 254, 169, 254)
  /\ vCalls = 1

IsLocalhostInput(domain) ==
  /\ Len(domain) \in 1..2
  /\ domain[1].k = "name"
  /\ domain[1].s \in {"localhost", "LocalHost", "LOCALHOST"}
  /\ Len(domain) = 2 => domain[2].k = "port"

ReasonKinds ==
  {"invalid_char", "control", "userinfo", "format", "path", "query", "fragment",
   "private_ip", "localhost", "dns", "resolves_private"}

C8_SyntaxGatesBeforeLookup ==
  LET parsedUrl == ParseHttpsUrl(vDomain) IN
    vPc # "idle" =>
      /\ ~PassesSyntaxGates(vDomain) =>
           /\ vPc = "returned"
           /\ ~vResult.valid
           /\ vLookups = <<>>
      /\ ( /\ parsedUrl.ok
           /\ \/ ~PathnameIsRoot(parsedUrl)
              \/ ~SearchIsEmpty(parsedUrl)
              \/ ~HashIsEmpty(parsedUrl) ) =>
           /\ vPc = "returned"
           /\ ~vResult.valid
           /\ vLookups = <<>>
      /\ ( /\ parsedUrl.ok
           /\ \/ parsedUrl.hostname.k \in {"ipv4", "br6"}
              \/ parsedUrl.hostname = Name("localhost") ) =>
           vLookups = <<>>
IsRedirectResponse(response) ==
  response.kind = "response" /\ response.status \in 300..399

(* C11: safeFetch cancels the body of every 3xx response it receives,      *)
(* whether it follows the redirect or throws, and only of those; the       *)
(* response it returns is the last one received, not a 3xx, with its body  *)
(* intact, and no response is handed out on any other exit.                *)
C11_RedirectBodiesCancelled ==
  /\ fCancelled =
       fRequests -
         (IF fPc = "fetch" THEN 1
          ELSE IF fRequests >= 1 /\ ~IsRedirectResponse(fReceived) THEN 1
          ELSE 0)
  /\ fPc = "returned" =>
       /\ fResponse = fReceived
       /\ ~IsRedirectResponse(fResponse)
       /\ fResponse.kind = "response"
       /\ fResponse.body = "intact"
  /\ fPc # "returned" => fResponse = NoResponse

(* two redirects were followed and the third response is handed over *)
C11_Witness ==
  /\ fPc = "returned"
  /\ fRequests = 3
  /\ fCancelled = 2
  /\ fResponse.status = 404
  /\ fResponse.body = "intact"
(* C12: the five failure causes of safeFetch surface as five different     *)
(* errors of its own: a failed lookup as the DNS failure, a private or     *)
(* reserved address as the policy violation, and likewise too many         *)
(* redirects, an unsafe scheme and a timeout; a failed lookup is never     *)
(* passed on as the resolver's own error.                                  *)
C12_FailuresDistinguishable ==
  /\ (fOutcome # NoOutcome /\ ~fOutcome.ok) =>
       /\ fPc = "threw"
       /\ fError.kind = "dns_failed"
  /\ HasPrivateAddress(fOutcome) =>
       /\ fPc = "threw"
       /\ fError.kind = "private_ip"
  /\ fError.kind = "dns_failed" => (fOutcome # NoOutcome /\ ~fOutcome.ok)
  /\ fError.kind = "private_ip" => HasPrivateAddress(fOutcome)
  /\ fError.kind = "too_many_redirects" =>
       (IsRedirectResponse(fReceived) /\ fCount > fMax)
  /\ fError.kind = "unsafe_scheme" =>
       ParseUrl(fUrl, NoBase).scheme \notin {"http", "https"}
  /\ (fPc # "fetch" /\ fReceived.kind = "abort") =>
       /\ fPc = "threw"
       /\ fError.kind = "abort"
  /\ fError.kind = "abort" => fReceived.kind = "abort"
(* C13: every request of safeFetch goes out with redirect-following        *)
(* disabled and with the timer set; when the timer fires while the request *)
(* is in flight the request is aborted, the abort error leaves safeFetch   *)
(* and no further hop is attempted; the timer is pending only while the    *)
(* request is in flight, being cleared on the success and on the failure   *)
(* exit of fetchWithTimeout.                                               *)
C13_TimerGuardsEveryRequest ==
  /\ fPc = "fetch" =>
       /\ fRedirect = "manual"
       /\ fTimer \in {"armed", "expired"}
       /\ fTimer = "expired" <=> fAborts = 1
  /\ fTimer \in {"armed", "expired"} => fPc = "fetch"
  /\ fRequests >= 1 => fRedirect = "manual"
  /\ fAborts <= 1
  /\ (fAborts = 1 /\ fPc # "fetch") =>
       /\ fPc = "threw"
       /\ fError.kind = "abort"
       /\ fReceived.kind = "abort"
       /\ fResponse = NoResponse
       /\ fLookups = fRequests
       /\ fTimer = "cleared"

(* the timer fires during the request that follows a redirect *)
C13_Witness ==
  /\ fPc = "threw"
  /\ fError.kind = "abort"
  /\ fAborts = 1
  /\ fCount = 1
  /\ fRequests = 2
  /\ fTimer = "cleared"
(* what the claims about the readers speak of, in terms of the response    *)
DeclaredOverCeiling(response) ==
  /\ response.contentLength.present
  /\ ~response.contentLength.nan
  /\ response.contentLength.n > 262144

BodySize(response) ==
  IF response.hasBody THEN Sum(response.chunks) ELSE response.textLen

ReadOver == rd.pc \in {"returned", "threw"}

SizeErrors == {"too_large", "exceeded"}

(* C14 as stated: readResponseText on a streamed body throws a size-limit  *)
(* error if and only if the total body size exceeds 262144 bytes, whatever *)
(* Content-Length declared.                                                *)
C14_AsStated ==
  (rFn = "text" /\ rResponse.hasBody /\ ReadOver) =>
    (rd.error \in SizeErrors <=> BodySize(rResponse) > 262144)

(* C14: when the declared Content-Length does not already reject the       *)
(* response, readResponseText on a streamed body throws the size-limit     *)
(* error if and only if the body exceeds 262144 bytes; it throws at the    *)
(* first chunk that takes the running total above the ceiling, issues no   *)
(* read after that chunk, and the bytes in its chunk buffer never exceed   *)
(* the ceiling.                                                            *)
C14_StreamCeiling ==
  (rFn = "text" /\ rResponse.hasBody) =>
    LET taken == Len(rResponse.chunks) - Len(rd.rest) IN
      /\ rd.buffered <= 262144
      /\ rd.reads <= Len(rResponse.chunks) + 1
      /\ (ReadOver /\ ~DeclaredOverCeiling(rResponse)) =>
           (rd.error = "exceeded" <=> BodySize(rResponse) > 262144)
      /\ rd.error = "exceeded" =>
           /\ rd.pc = "threw"
           /\ rd.reads = taken
           /\ rd.total = Sum(SubSeq(rResponse.chunks, 1, taken))
           /\ rd.total > 262144
           /\ rd.buffered = Sum(SubSeq(rResponse.chunks, 1, taken - 1))
           /\ rd.value = "none"
      /\ rd.pc = "returned" =>
           /\ rd.total = BodySize(rResponse)
           /\ rd.buffered = rd.total

(* a body one byte over the ceiling, declared as empty, is stopped at its  *)
(* second chunk                                                            *)
C14_Witness ==
  /\ rFn = "text"
  /\ rResponse.chunks = <<262144, 1>>
  /\ rResponse.contentLength = ContentLength(TRUE, FALSE, 0)
  /\ rd.pc = "threw"
  /\ rd.error = "exceeded"
  /\ rd.reads = 2
  /\ rd.buffered = 262144

(* C15: with a Content-Length declared above 262144, readResponseText      *)
(* throws "Response too large" without obtaining a reader and without      *)
(* reading a byte of the body.                                             *)
C15_DeclaredLengthRejects ==
  (rFn = "text" /\ rd.pc # "idle" /\ DeclaredOverCeiling(rResponse)) =>
    /\ rd.pc = "threw"
    /\ rd.error = "too_large"
    /\ rd.lock = "none"
    /\ rd.reads = 0
    /\ rd.total = 0
    /\ rd.value = "none"

C15_Witness ==
  /\ rFn = "text"
  /\ rResponse.hasBody
  /\ rResponse.chunks = <<1>>
  /\ rResponse.contentLength = ContentLength(TRUE, FALSE, 262145)
  /\ rd.pc = "threw"
  /\ rd.error = "too_large"

(* the responses on which readResponseText throws a size error *)
TextSizeError(response) ==
  DeclaredOverCeiling(response) \/ BodySize(response) > 262144

(* C16: on every response on which readResponseText throws a size error,   *)
(* readResponseJson throws a size error too and returns no value,          *)
(* responses without a body stream included.                               *)
C16_JsonSameCeiling ==
  (rFn = "json" /\ ReadOver /\ TextSizeError(rResponse)) =>
    /\ rd.pc = "threw"
    /\ rd.error \in SizeErrors
    /\ rd.value = "none"

(* C17: readResponseJson on content within the ceiling that is not         *)
(* well-formed JSON throws the "Invalid JSON" error, which is none of the  *)
(* size errors; on content over the ceiling it throws the size error and   *)
(* attempts no parse.                                                      *)
C17_InvalidJsonDistinct ==
  (rFn = "json" /\ ReadOver /\ rResponse.ends = "done") =>
    /\ (BodySize(rResponse) <= 262144 /\ ~rResponse.wellFormed) =>
         /\ rd.pc = "threw"
         /\ rd.error = "invalid_json"
    /\ BodySize(rResponse) > 262144 =>
         /\ rd.pc = "threw"
         /\ rd.error \in SizeErrors
         /\ rd.parses = 0

(* C18: on every exit of readResponseText that leaves the body unconsumed  *)
(* (the declared length rejects, the running total overflows, a read       *)
(* fails) the reader lock is released and the stream is cancelled.         *)
C18_StreamReleased ==
  (rFn = "text" /\ rResponse.hasBody /\ rd.pc = "threw") =>
    /\ rd.lock # "locked"
    /\ rd.stream \in {"cancelled", "errored"}
(* the ranges the specification lists, octet by octet and part by part *)
InListedV4(o) ==
  \/ o[1] = 0
  \/ o[1] = 10
  \/ o[1] = 100 /\ o[2] \in 64..127
  \/ o[1] = 127
  \/ o[1] = 169 /\ o[2] = 254
  \/ o[1] = 172 /\ o[2] \in 16..31
  \/ o[1] = 192 /\ o[2] = 168
  \/ o = <<255, 255, 255, 255>>

InListedV6(p) ==
  \/ p = <<0, 0, 0, 0, 0, 0, 0, 1>>
  \/ p = <<0, 0, 0, 0, 0, 0, 0, 0>>
  \/ p[1] \in 64512..65023
  \/ p[1] \in 65152..65215
  \/ p[1] \in 65280..65535

(* the further ranges the library names multicast or reserved *)
InFurtherV4(o) ==
  \/ o[1] \in 224..255
  \/ o[1] = 192 /\ o[2] = 0 /\ o[3] \in {0, 2}
  \/ o[1] = 192 /\ o[2] = 88 /\ o[3] = 99
  \/ o[1] = 198 /\ o[2] \in {18, 19}
  \/ o[1] = 198 /\ o[2] = 51 /\ o[3] = 100
  \/ o[1] = 203 /\ o[2] = 0 /\ o[3] = 113

InFurtherV6(p) == p[1] = 8193 /\ p[2] = 3512

(* the text is an address: four octets, or eight 16-bit parts *)
Parseable(t) ==
  /\ t.k \in {"ipv4", "ipv6", "mapped"}
  /\ Len(t.n) = (IF t.k = "ipv6" THEN 8 ELSE 4)
  /\ \A i \in 1..Len(t.n) : t.n[i] \in 0..(IF t.k = "ipv6" THEN 65535 ELSE 255)

(* a genuine IPv6 address: not the hextet spelling of ::ffff:a.b.c.d *)
GenuineV6(t) ==
  Parseable(t) /\ t.k = "ipv6" /\ ~((\A i \in 1..5 : t.n[i] = 0) /\ t.n[6] = 65535)

(* C19: isPrivateOrReservedIP returns true for every IPv4 address in       *)
(* 0.0.0.0/8, 10.0.0.0/8, 100.64.0.0/10, 127.0.0.0/8, 169.254.0.0/16,      *)
(* 172.16.0.0/12, 192.168.0.0/16 and for 255.255.255.255, and for every    *)
(* IPv6 address in ::1/128, ::/128, fc00::/7, fe80::/10 and ff00::/8, the  *)
(* first and the last address of each range included.                      *)
C19_ListedRangesBlocked ==
  cPc = "returned" =>
    /\ (cIp.k = "ipv4" /\ InListedV4(cIp.n)) => cResult
    /\ (cIp.k = "ipv6" /\ InListedV6(cIp.n)) => cResult

(* the last address of fe80::/10 *)
C19_Witness ==
  /\ cPc = "returned"
  /\ cIp = V6(<<65215, 65535, 65535, 65535, 65535, 65535, 65535, 65535>>)
  /\ cResult

EmbeddedQuad(t) ==
  IF t.k = "ipv6"
  THEN <<t.n[7] \div 256, t.n[7] % 256, t.n[8] \div 256, t.n[8] % 256>>
  ELSE t.n

(* C21: an IPv4-mapped IPv6 address gets the classification of its         *)
(* embedded IPv4 address in every spelling: two calls whose arguments are  *)
(* spellings of the same embedded address (bare a.b.c.d, ::ffff:a.b.c.d,   *)
(* compressed, expanded and zero-padded hextets) return the same value.    *)
C21_MappedSpellingsAgree ==
  (cPc = "returned" /\ cPrev # <<>> /\ EmbeddedQuad(cPrev[1]) = EmbeddedQuad(cIp))
    => cResult = cPrev[2]

(* 0000:0000:0000:0000:0000:ffff:c0a8:0101 after 192.168.1.1 *)
C21_Witness ==
  /\ cPc = "returned"
  /\ cPrev = <<V4(192, 168, 1, 1), TRUE>>
  /\ cIp = Spelt(V6(<<0, 0, 0, 0, 0, 65535, 49320, 257>>), "padded")
  /\ cResult
(* C22: for every input that cannot be parsed as an IP address,            *)
(* isPrivateOrReservedIP returns true: it returns (the call settles with a *)
(* value, no exception leaves it) and the value is never "public".         *)
C22_UnparseableIsNotPublic ==
  (cPc # "idle" /\ ~Parseable(cIp)) => cPc = "returned" /\ cResult = TRUE

(* 8.8.8.256 is no address *)
C22_Witness ==
  cPc = "returned" /\ cIp = V4(8, 8, 8, 256) /\ cResult
(* the invocation run alone on what it was given *)
RECURSIVE Replay(_, _)
Replay(frame, events) ==
  IF events = <<>> THEN frame
  ELSE Replay(CallAdvance(frame, Head(events)), Tail(events))

CountOf(checks, status) == Cardinality({i \in 1..Len(checks) : checks[i] = status})

(* C24: for every non-empty set of checks calculateScore returns           *)
(* round((100*pass + 50*warn) / total) with halves rounded up: the integer *)
(* s in 0..100 with s <= x/total + 1/2 < s + 1; all pass gives 100, all    *)
(* warn 50, all fail 0; two pass, a warn and a fail give 63 (62.5), two    *)
(* pass and a warn give 83 (83.33).                                        *)
C24_ScoreIsRoundedMean ==
  yPc = "returned" =>
    LET total == Len(yChecks)
        x == 100 * CountOf(yChecks, "pass") + 50 * CountOf(yChecks, "warn")
    IN  /\ yScore \in 0..100
        /\ 2 * total * yScore <= 2 * x + total
        /\ 2 * x + total < 2 * total * (yScore + 1)
        /\ CountOf(yChecks, "pass") = total => yScore = 100
        /\ CountOf(yChecks, "warn") = total => yScore = 50
        /\ CountOf(yChecks, "fail") = total => yScore = 0
        /\ yChecks = <<"pass", "warn", "fail", "pass">> => yScore = 63
        /\ yChecks = <<"pass", "pass", "warn">> => yScore = 83

(* 250 / 4 = 62.5 gives 63 *)
C24_Witness ==
  yPc = "returned" /\ yChecks = <<"pass", "warn", "fail", "pass">> /\ yScore = 63
(* C25: after every batch has completed the exit code is 1 if and only if  *)
(* at least one check of at least one report has status fail (a domain     *)
(* whose scan threw has four failed checks), and 0 otherwise.              *)
C25_ExitCodeIffFailure ==
  (lPc = "exited" /\ lN > 0) =>
    /\ lExit \in {0, 1}
    /\ lExit = 1 <=>
         \E k \in 1..Len(lReports) :
           \E j \in 1..Len(lReports[k].checks) : lReports[k].checks[j] = "fail"
    /\ \A d \in lThrew : lReports[d].checks = <<"fail", "fail", "fail", "fail">>

(* seven domains, warnings only: exit code 0 *)
C25_Witness ==
  /\ lPc = "exited" /\ lN = 7 /\ lExit = 0
  /\ lReports[6].checks = <<"pass", "warn", "pass", "warn">>

(* C28: the domains are scanned in consecutive batches of at most 5: never *)
(* more than 5 scanDomain calls in flight, the calls in flight belong to   *)
(* one batch and every earlier position has its report, and at the end the *)
(* reports list holds one report per input domain in input order, a scan   *)
(* that threw having a report with score 0 while the others keep theirs.   *)
C28_BatchesOfFive ==
  /\ Cardinality(lInFlight) <= 5
  /\ lPeak <= 5
  /\ \A d \in lInFlight :
       /\ Len(lReports) < d /\ d <= Len(lReports) + 5
       /\ Len(lReports) % 5 = 0
  /\ (lPc = "exited" /\ lN > 0) =>
       /\ Len(lReports) = lN
       /\ \A k \in 1..lN : lReports[k].domain = k
       /\ \A k \in 1..lN :
            IF k \in lThrew THEN lReports[k].score = 0
            ELSE lReports[k].checks \in ScanOutcomes \ {<<>>}

(* the second batch is in flight after a scan of the first one threw *)
C28_Witness ==
  /\ lPc = "scanning" /\ lN = 7 /\ lInFlight = {6, 7}
  /\ 2 \in lThrew /\ Len(lReports) = 5 /\ lPeak = 5

(* C26: scanMCP fetches /.well-known/mcp.json and then /mcp.json, in that  *)
(* order and each at most once; it returns pass (with mcpDetected) at the  *)
(* first path that is ok, JSON and schema-valid and fetches no later path; *)
(* any other outcome at the first path leads to the second one; when no    *)
(* path passes the result is warn, with mcpDetected exactly when some path *)
(* had a schema failure; the result is never fail and nothing is thrown.   *)
C26_McpTriesPathsInOrder ==
  nSt.scanner = "mcp" =>
    /\ Len(nSt.fetches) <= 2
    /\ nSt.fetches = SubSeq(ScannerPaths("mcp"), 1, Len(nSt.fetches))
    /\ nSt.pc \in {"fetch", "read", "returned"}
    /\ nSt.pc \in {"fetch", "read"} => nSt.path = Len(nSt.fetches) + (IF nSt.pc = "fetch" THEN 1 ELSE 0)
    /\ nSt.pc = "returned" =>
         /\ nSt.result.status \in {"pass", "warn"}
         /\ nSt.result.status = "pass" =>
              nSt.result.detected /\ Len(nSt.fetches) = nSt.path
         /\ nSt.result.status = "warn" =>
              /\ Len(nSt.fetches) = 2
              /\ nSt.result.detected = nSt.schemaError

(* both paths were fetched, one had a schema failure: warn, mcpDetected *)
C26_Witness ==
  /\ nSt.scanner = "mcp" /\ nSt.pc = "returned"
  /\ nSt.result = CheckResult("warn", TRUE) /\ Len(nSt.fetches) = 2

(* C27: every connection a scanner asks for goes through safeFetch or      *)
(* checkTLS, and a request or TLS socket is opened only after a lookup     *)
(* that succeeded and whose every address is neither private nor reserved. *)
C27_ConnectionsAreClassified ==
  \A i \in 1..Len(nSt.conns) :
    /\ nSt.conns[i].via \in {"safeFetch", "checkTLS"}
    /\ nSt.conns[i].opened =>
         /\ nSt.conns[i].outcome.ok
         /\ \A j \in 1..Len(nSt.conns[i].outcome.addresses) :
              ~isPrivateOrReservedIP(nSt.conns[i].outcome.addresses[j])

(* scanHealth: the request was sent to a public answer, the name then      *)
(* resolved to a link-local address as well and no TLS socket was opened   *)
C27_Witness ==
  /\ nSt.scanner = "health" /\ nSt.pc = "returned" /\ Len(nSt.conns) = 2
  /\ nSt.conns[1].opened
  /\ nSt.conns[2] = Conn("checkTLS", Answer(<<V4(8, 8, 8, 8), V4(169, 254, 169, 254)>>), FALSE)

(* C29: called with a target that passed validation, each of the four      *)
(* scanners ends by returning a CheckResult whose status is pass, warn or  *)
(* fail, whatever its lookups, requests and reads gave, and never throws.  *)
C29_ScannersAlwaysReturn ==
  /\ nSt.pc \in {"idle", "fetch", "read", "links", "tls", "returned"}
  /\ nSt.pc = "returned" => nSt.result.status \in CheckStatuses
  /\ nSt.pc # "returned" => nSt.result = NoCheckResult

(* scanHealth returned fail after the lookup of its request failed *)
C29_Witness ==
  /\ nSt.scanner = "health" /\ nSt.pc = "returned" /\ nSt.result.status = "fail"
  /\ Len(nSt.conns) = 1 /\ ~nSt.conns[1].outcome.ok

(* C30: a lookup that succeeds with an empty answer is treated as not      *)
(* safe: validateDomain returns valid = true after a lookup, and safeFetch *)
(* issues the request of a hop, only when the lookup returned at least one *)
(* address and every returned address is public.                           *)
C30_EmptyAnswerIsNotSafe ==
  /\ (vPc = "returned" /\ vHostname # None /\ vResult.valid) =>
       /\ vOutcome.ok
       /\ Len(vOutcome.addresses) >= 1
       /\ \A i \in 1..Len(vOutcome.addresses) : ~isPrivateOrReservedIP(vOutcome.addresses[i])
  /\ fPc \in {"fetch", "returned"} =>
       /\ fOutcome.ok
       /\ Len(fOutcome.addresses) >= 1
       /\ \A i \in 1..Len(fOutcome.addresses) : ~isPrivateOrReservedIP(fOutcome.addresses[i])
====
